---- MODULE Spec2Model ----
(***************************************************************************)
(* A model of the concurrent execution layer of the dork scraper:          *)
(*   - TaskQueue      (src/src/orchestrator/taskQueue.ts)                  *)
(*   - Scheduler      (src/src/filter/index.ts, class Scheduler)           *)
(*   - Engine         (src/unnamed/part_004, class Engine)                 *)
(*   - worker Pool    (src/worker/internal/proxy/pool.go)                  *)
(*   - FilterPipeline / UrlDeduplicator (src/src/filter/index.ts)          *)
(*   - core Manager   (src/core/internal/proxy/manager.go)                 *)
(* Every object is one record-valued variable whose fields are the         *)
(* object's fields; every method is an operator from the object (and the   *)
(* arguments) to the object after the call, and every specification's      *)
(* actions apply these operators.                                          *)
(***************************************************************************)
EXTENDS Integers, Sequences, FiniteSets, TLC

VARIABLES queue, sched, engine, pool, filt, mgr

vars == <<queue, sched, engine, pool, filt, mgr>>

(***************************************************************************)
(* Bounds of the model.                                                    *)
(***************************************************************************)
\* task ids handed out by nanoid() between two clearAll() calls
MaxTasks == 2

(***************************************************************************)
(* Small helpers.                                                          *)
(***************************************************************************)
MinOf(S) == CHOOSE x \in S : \A y \in S : x <= y

MaxOf(S) == CHOOSE x \in S : \A y \in S : x >= y

Min2(a, b) == IF a <= b THEN a ELSE b

Max2(a, b) == IF a >= b THEN a ELSE b

RemoveAt(s, i) == SubSeq(s, 1, i - 1) \o SubSeq(s, i + 1, Len(s))

InsertAt(s, i, x) == SubSeq(s, 1, i - 1) \o <<x>> \o SubSeq(s, i, Len(s))

SeqToSet(s) == {s[i] : i \in 1..Len(s)}

(***************************************************************************)
(* TaskQueue                                                               *)
(***************************************************************************)
\* enum TaskPriority
LOW == 0
NORMAL == 1
HIGH == 2
CRITICAL == 3

\* constructor defaults: options.x || default
DefaultMaxConcurrent == 100
DefaultMaxRetries == 3
DefaultPagesPerDork == 5

TaskIds == 1..MaxTasks

Dorks == {"a", "b"}

\* a slot of the task heap that holds no task object yet
NoTask ==
  [dork |-> "", page |-> 0, status |-> "none", priority |-> LOW,
   retryCount |-> 0, maxRetries |-> 0, handouts |-> 0]

\* `a || b' of JavaScript on numbers: 0 is falsy
OrDefault(a, b) == IF a = 0 THEN b ELSE a

\* new TaskQueue(options).  The fields ingested, spawned, discarded, signal
\* and tasks[id].handouts are history fields: they record how many tasks
\* addDork / addPageTask created and clearPending dropped since the last
\* clearAll, which queue-state event the most recent complete() / fail()
\* call emitted, and how often getNext handed the task out.
NewTaskQueue(optMaxConcurrent, optMaxRetries, optPagesPerDork) ==
  [pending |-> <<>>, running |-> {}, completed |-> <<>>, failed |-> <<>>,
   maxConcurrent |-> OrDefault(optMaxConcurrent, DefaultMaxConcurrent),
   maxRetries |-> OrDefault(optMaxRetries, DefaultMaxRetries),
   pagesPerDork |-> OrDefault(optPagesPerDork, DefaultPagesPerDork),
   paused |-> FALSE, processedDorks |-> {},
   tasks |-> [i \in TaskIds |-> NoTask], nextId |-> 1,
   ingested |-> 0, spawned |-> 0, discarded |-> 0, signal |-> "none"]

\* insertByPriority that stops at the first pending task of lower or equal
\* priority: the task goes to the front of its priority class
insertIndex_BeforeEquals(q, prio, front) ==
  LET lower == {i \in 1..Len(q.pending) : q.tasks[q.pending[i]].priority <= prio}
  IN  IF lower = {} THEN Len(q.pending) + 1 ELSE MinOf(lower)

\* insertByPriority(task, front): the index of the first pending task of
\* strictly lower priority, or the end; both branches of `front' scan alike
insertIndex(q, prio, front) ==
  LET lower == {i \in 1..Len(q.pending) : q.tasks[q.pending[i]].priority < prio}
  IN  IF front
        THEN IF lower = {} THEN Len(q.pending) + 1 ELSE MinOf(lower)
        ELSE IF lower = {} THEN Len(q.pending) + 1 ELSE MinOf(lower)

insertByPriority(q, id, front) ==
  IF q.pending = <<>>
    THEN [q EXCEPT !.pending = <<id>>]
    ELSE [q EXCEPT !.pending =
            InsertAt(q.pending, insertIndex(q, q.tasks[id].priority, front), id)]

\* the task object addDork / addPageTask build
NewTask(q, dork, page, priority) ==
  [dork |-> dork, page |-> page, status |-> "pending", priority |-> priority,
   retryCount |-> 0, maxRetries |-> q.maxRetries, handouts |-> 0]

addDork(q, dork, priority) ==
  LET id == q.nextId
      q1 == [q EXCEPT !.tasks[id] = NewTask(q, dork, 0, priority),
                      !.nextId = id + 1,
                      !.ingested = q.ingested + 1]
  IN  insertByPriority(q1, id, FALSE)

addPageTask(q, dork, page, priority) ==
  LET id == q.nextId
      q1 == [q EXCEPT !.tasks[id] = NewTask(q, dork, page, priority),
                      !.nextId = id + 1,
                      !.spawned = q.spawned + 1]
  IN  insertByPriority(q1, id, TRUE)

\* getNext() without the test of running.size against maxConcurrent
getNextReturnsNull_NoCap(q) ==
  q.paused \/ q.pending = <<>>

\* getNext(): null (the queue unchanged) or the head of pending, now running
getNextReturnsNull(q) ==
  q.paused \/ Cardinality(q.running) >= q.maxConcurrent \/ q.pending = <<>>

\* getNext() without this.pending.shift(): the task is only peeked at
getNext_NoShift(q) ==
  IF getNextReturnsNull(q)
    THEN q
    ELSE LET id == Head(q.pending)
         IN  [q EXCEPT !.tasks[id].status = "running",
                       !.tasks[id].handouts = q.tasks[id].handouts + 1,
                       !.running = q.running \cup {id}]

getNext(q) ==
  IF getNextReturnsNull(q)
    THEN q
    ELSE LET id == Head(q.pending)
         IN  [q EXCEPT !.pending = Tail(q.pending),
                       !.tasks[id].status = "running",
                       !.tasks[id].handouts = q.tasks[id].handouts + 1,
                       !.running = q.running \cup {id}]

\* getNextBatch(count): [q |-> the queue afterwards, tasks |-> the batch]
RECURSIVE getNextBatchLoop(_, _, _)
getNextBatchLoop(q, count, acc) ==
  IF count <= 0 \/ getNextReturnsNull(q)
    THEN [q |-> q, tasks |-> acc]
    ELSE getNextBatchLoop(getNext(q), count - 1, Append(acc, Head(q.pending)))

getNextBatch(q, count) == getNextBatchLoop(q, count, <<>>)

\* checkQueueState() that does not look at the running set
checkQueueState_IgnoresRunning(q) ==
  IF q.pending = <<>>
    THEN [q EXCEPT !.signal = "queueDrained"]
    ELSE [q EXCEPT !.signal = "none"]

\* checkQueueState(): the event it emits
checkQueueState(q) ==
  IF q.pending = <<>> /\ q.running = {}
    THEN [q EXCEPT !.signal = "queueDrained"]
    ELSE IF q.pending = <<>>
           THEN [q EXCEPT !.signal = "queueEmpty"]
           ELSE [q EXCEPT !.signal = "none"]

\* complete() that forgets this.completed.push(task)
complete_NoRecord(q, taskId, hasNextPage) ==
  IF taskId \notin q.running
    THEN [q EXCEPT !.signal = "none"]
    ELSE LET task == q.tasks[taskId]
             q1 == [q EXCEPT !.tasks[taskId].status = "completed",
                             !.running = q.running \ {taskId},
                             !.processedDorks =
                                q.processedDorks \cup {<<task.dork, task.page>>}]
             q2 == IF hasNextPage /\ task.page < q.pagesPerDork - 1
                     THEN addPageTask(q1, task.dork, task.page + 1, HIGH)
                     ELSE q1
         IN  checkQueueState(q2)

\* complete() that spawns up to and including the last page
complete_SpawnsAtLastPage(q, taskId, hasNextPage) ==
  IF taskId \notin q.running
    THEN [q EXCEPT !.signal = "none"]
    ELSE LET task == q.tasks[taskId]
             q1 == [q EXCEPT !.tasks[taskId].status = "completed",
                             !.running = q.running \ {taskId},
                             !.completed = Append(q.completed, taskId),
                             !.processedDorks =
                                q.processedDorks \cup {<<task.dork, task.page>>}]
             q2 == IF hasNextPage /\ task.page <= q.pagesPerDork - 1
                     THEN addPageTask(q1, task.dork, task.page + 1, HIGH)
                     ELSE q1
         IN  checkQueueState(q2)

complete(q, taskId, hasNextPage) ==
  IF taskId \notin q.running
    THEN [q EXCEPT !.signal = "none"]
    ELSE LET task == q.tasks[taskId]
             q1 == [q EXCEPT !.tasks[taskId].status = "completed",
                             !.running = q.running \ {taskId},
                             !.completed = Append(q.completed, taskId),
                             !.processedDorks =
                                q.processedDorks \cup {<<task.dork, task.page>>}]
             q2 == IF hasNextPage /\ task.page < q.pagesPerDork - 1
                     THEN addPageTask(q1, task.dork, task.page + 1, HIGH)
                     ELSE q1
         IN  checkQueueState(q2)

\* fail() whose final branch forgets this.failed.push(task)
fail_NoRecord(q, taskId, retry) ==
  IF taskId \notin q.running
    THEN [q EXCEPT !.signal = "none"]
    ELSE LET task == q.tasks[taskId]
         IN  IF retry /\ task.retryCount < task.maxRetries
               THEN LET q1 == [q EXCEPT
                                 !.tasks[taskId].retryCount = task.retryCount + 1,
                                 !.tasks[taskId].status = "pending",
                                 !.running = q.running \ {taskId},
                                 !.tasks[taskId].priority =
                                    Min2(task.priority + 1, CRITICAL)]
                    IN  checkQueueState(insertByPriority(q1, taskId, FALSE))
               ELSE checkQueueState(
                      [q EXCEPT !.tasks[taskId].status = "failed",
                                !.running = q.running \ {taskId}])

\* fail() that compares retryCount <= maxRetries: one retry too many
fail_OffByOne(q, taskId, retry) ==
  IF taskId \notin q.running
    THEN [q EXCEPT !.signal = "none"]
    ELSE LET task == q.tasks[taskId]
         IN  IF retry /\ task.retryCount <= task.maxRetries
               THEN LET q1 == [q EXCEPT
                                 !.tasks[taskId].retryCount = task.retryCount + 1,
                                 !.tasks[taskId].status = "pending",
                                 !.running = q.running \ {taskId},
                                 !.tasks[taskId].priority =
                                    Min2(task.priority + 1, CRITICAL)]
                    IN  checkQueueState(insertByPriority(q1, taskId, FALSE))
               ELSE checkQueueState(
                      [q EXCEPT !.tasks[taskId].status = "failed",
                                !.running = q.running \ {taskId},
                                !.failed = Append(q.failed, taskId)])

\* fail() that bumps the priority without Math.min(..., CRITICAL)
fail_NoClamp(q, taskId, retry) ==
  IF taskId \notin q.running
    THEN [q EXCEPT !.signal = "none"]
    ELSE LET task == q.tasks[taskId]
         IN  IF retry /\ task.retryCount < task.maxRetries
               THEN LET q1 == [q EXCEPT
                                 !.tasks[taskId].retryCount = task.retryCount + 1,
                                 !.tasks[taskId].status = "pending",
                                 !.running = q.running \ {taskId},
                                 !.tasks[taskId].priority = task.priority + 1]
                    IN  checkQueueState(insertByPriority(q1, taskId, FALSE))
               ELSE checkQueueState(
                      [q EXCEPT !.tasks[taskId].status = "failed",
                                !.running = q.running \ {taskId},
                                !.failed = Append(q.failed, taskId)])

fail(q, taskId, retry) ==
  IF taskId \notin q.running
    THEN [q EXCEPT !.signal = "none"]
    ELSE LET task == q.tasks[taskId]
         IN  IF retry /\ task.retryCount < task.maxRetries
               THEN LET q1 == [q EXCEPT
                                 !.tasks[taskId].retryCount = task.retryCount + 1,
                                 !.tasks[taskId].status = "pending",
                                 !.running = q.running \ {taskId},
                                 !.tasks[taskId].priority =
                                    Min2(task.priority + 1, CRITICAL)]
                    IN  checkQueueState(insertByPriority(q1, taskId, FALSE))
               ELSE checkQueueState(
                      [q EXCEPT !.tasks[taskId].status = "failed",
                                !.running = q.running \ {taskId},
                                !.failed = Append(q.failed, taskId)])

block(q, taskId) == fail(q, taskId, TRUE)

pauseQueue(q) == [q EXCEPT !.paused = TRUE]

resumeQueue(q) == [q EXCEPT !.paused = FALSE]

clearPending(q) ==
  [q EXCEPT !.pending = <<>>,
            !.discarded = q.discarded + Len(q.pending)]

\* clearAll(): the four collections and processedDorks are emptied; paused,
\* maxConcurrent, maxRetries and pagesPerDork are kept.  The task objects
\* become unreachable, so the heap and the id supply start afresh.
clearAll(q) ==
  [q EXCEPT !.pending = <<>>, !.running = {}, !.completed = <<>>,
            !.failed = <<>>, !.processedDorks = {},
            !.tasks = [i \in TaskIds |-> NoTask], !.nextId = 1,
            !.ingested = 0, !.spawned = 0, !.discarded = 0,
            !.signal = "none"]

setMaxConcurrent(q, max) == [q EXCEPT !.maxConcurrent = max]

isProcessed(q, dork, page) == <<dork, page>> \in q.processedDorks

\* getStats(): the four counts and their total
getStats(q) ==
  [pending |-> Len(q.pending), running |-> Cardinality(q.running),
   completed |-> Len(q.completed), failed |-> Len(q.failed),
   total |-> Len(q.pending) + Cardinality(q.running)
             + Len(q.completed) + Len(q.failed)]

(***************************************************************************)
(* QueueSpec: a caller drives one TaskQueue through its public methods.    *)
(***************************************************************************)
\* options a caller constructs the queue with (0: the option is left out)
MaxConcurrentOptions == {0}
MaxRetriesOptions == {1, 2}
PagesPerDorkOptions == {2}
Priorities == {LOW, NORMAL, HIGH, CRITICAL}
\* priorities a direct caller of addDork names
DorkPriorities == {NORMAL}
\* caps a direct caller of setMaxConcurrent names
ConcurrencyCaps == {1}
\* pages a direct caller of addPageTask names
PageInputs == {1}
\* batch sizes a direct caller of getNextBatch asks for
BatchSizes == {1, 2}

OthersIdle ==
  /\ sched = "unused"
  /\ engine = "unused"
  /\ pool = "unused"
  /\ filt = "unused"
  /\ mgr = "unused"

QueueInit ==
  /\ queue \in {NewTaskQueue(c, r, p) : c \in MaxConcurrentOptions,
                                        r \in MaxRetriesOptions,
                                        p \in PagesPerDorkOptions}
  /\ OthersIdle

QAddDork(d, p) ==
  /\ queue.nextId <= MaxTasks
  /\ queue' = addDork(queue, d, p)
  /\ UNCHANGED <<sched, engine, pool, filt, mgr>>

QAddPage(d, page, p) ==
  /\ queue.nextId <= MaxTasks
  /\ queue' = addPageTask(queue, d, page, p)
  /\ UNCHANGED <<sched, engine, pool, filt, mgr>>

QNextBatch(n) ==
  /\ queue' = getNextBatch(queue, n).q
  /\ UNCHANGED <<sched, engine, pool, filt, mgr>>

\* complete() may spawn a page task, which needs a fresh id
SpawnFits(q, taskId, hasNextPage) ==
  \/ q.nextId <= MaxTasks
  \/ taskId \notin q.running
  \/ ~(hasNextPage /\ q.tasks[taskId].page < q.pagesPerDork - 1)

QComplete(id, hasNextPage) ==
  /\ SpawnFits(queue, id, hasNextPage)
  /\ queue' = complete(queue, id, hasNextPage)
  /\ UNCHANGED <<sched, engine, pool, filt, mgr>>

QFail(id, retry) ==
  /\ queue' = fail(queue, id, retry)
  /\ UNCHANGED <<sched, engine, pool, filt, mgr>>

QBlock(id) ==
  /\ queue' = block(queue, id)
  /\ UNCHANGED <<sched, engine, pool, filt, mgr>>

QPause ==
  /\ queue' = pauseQueue(queue)
  /\ UNCHANGED <<sched, engine, pool, filt, mgr>>

QResume ==
  /\ queue' = resumeQueue(queue)
  /\ UNCHANGED <<sched, engine, pool, filt, mgr>>

QClearAll ==
  /\ queue' = clearAll(queue)
  /\ UNCHANGED <<sched, engine, pool, filt, mgr>>

QSetMaxConcurrent(m) ==
  /\ queue' = setMaxConcurrent(queue, m)
  /\ UNCHANGED <<sched, engine, pool, filt, mgr>>

QClearPending ==
  /\ queue' = clearPending(queue)
  /\ UNCHANGED <<sched, engine, pool, filt, mgr>>

QueueNext ==
  \/ \E d \in Dorks, p \in DorkPriorities : QAddDork(d, p)
  \/ \E d \in Dorks, page \in PageInputs : QAddPage(d, page, HIGH)
  \/ \E n \in BatchSizes : QNextBatch(n)
  \/ \E id \in TaskIds, h \in BOOLEAN : QComplete(id, h)
  \/ \E id \in TaskIds, r \in BOOLEAN : QFail(id, r)
  \/ \E id \in TaskIds : QBlock(id)
  \/ QPause
  \/ QResume
  \/ QClearAll
  \/ \E m \in ConcurrencyCaps : QSetMaxConcurrent(m)

QueueSpec == QueueInit /\ [][QueueNext]_vars

\* the same caller, who may also call clearPending()
QueueAdminNext ==
  \/ QueueNext
  \/ QClearPending

QueueAdminSpec == QueueInit /\ [][QueueAdminNext]_vars

(***************************************************************************)
(* Properties of the TaskQueue.                                            *)
(***************************************************************************)
PendingSet(q) == SeqToSet(q.pending)

Drained(q) == q.pending = <<>> /\ q.running = {}

C6_RunningInFlightNotPending ==
  \A id \in TaskIds :
    queue.tasks[id].status = "running" =>
      id \in queue.running /\ id \notin PendingSet(queue)

\* a retried task is running again while another task waits in pending
C6_Witness ==
  \E id \in TaskIds :
    /\ queue.tasks[id].status = "running"
    /\ queue.tasks[id].retryCount >= 1
    /\ queue.pending # <<>>

C9_NoPairCompletedTwice ==
  \A i, j \in 1..Len(queue.completed) :
    (/\ queue.tasks[queue.completed[i]].dork = queue.tasks[queue.completed[j]].dork
     /\ queue.tasks[queue.completed[i]].page = queue.tasks[queue.completed[j]].page)
      => i = j

\* C10: getNext hands a task out at most maxRetries + 1 times (maxRetries
\* being the task's retry limit), and a task that has failed with its
\* retries used up is in the failed list, once, and nowhere else.
C10_RetriesBounded ==
  \A id \in TaskIds :
    LET t == queue.tasks[id]
    IN  /\ t.handouts <= t.maxRetries + 1
        /\ t.retryCount <= t.maxRetries
        /\ (t.status = "failed" =>
              /\ Cardinality({i \in 1..Len(queue.failed) : queue.failed[i] = id}) = 1
              /\ id \notin queue.running
              /\ id \notin PendingSet(queue)
              /\ id \notin SeqToSet(queue.completed))
        /\ (t.status = "pending" /\ id \in PendingSet(queue) =>
              t.handouts <= t.maxRetries)

\* a task was retried until its budget was used up and then failed for good
C10_Witness ==
  \E id \in TaskIds :
    LET t == queue.tasks[id]
    IN  /\ t.status = "failed"
        /\ t.maxRetries >= 1
        /\ t.retryCount = t.maxRetries
        /\ t.handouts = t.maxRetries + 1

(***************************************************************************)
(* worker Pool (src/worker/internal/proxy/pool.go)                         *)
(*                                                                         *)
(* Every exported method takes p.mu for its whole body, so each call is    *)
(* one atomic step.  Proxies are named by small integers.  Times are       *)
(* integers; pool.now is the reading time.Now() gives.  The counter        *)
(* totalRotations and the captcha-hit counter are written but read by no   *)
(* decision of the pool and are left out.                                  *)
(***************************************************************************)
\* proxies a run knows about
MaxProxies == 2
\* last reading of the clock
MaxTime == 4
\* requests reported to the pool
MaxRequests == 3
\* entries of the quarantine list
MaxQuarantineLen == 2

ProxyIds == 1..MaxProxies

\* performHealthCheck: proxy.TotalRequests >= 10
MinRequestsForRate == 10

\* the zero time.Time, before every reading of the clock
ZeroTime == 0 - 1

\* p.proxies[id] for an id that is not a key of the map
NoProxy ==
  [status |-> "none", failCount |-> 0, totalRequests |-> 0,
   successCount |-> 0, cooldownUntil |-> ZeroTime]

\* a Proxy as the parser hands it to AddProxy
NewProxy ==
  [status |-> "unknown", failCount |-> 0, totalRequests |-> 0,
   successCount |-> 0, cooldownUntil |-> ZeroTime]

\* Proxy.IsAvailable: status alive and cooldown-until in the past
IsAvailable(x, now) == x.status = "alive" /\ now > x.cooldownUntil

\* Proxy.RecordSuccess: counts the success, marks alive, resets the
\* consecutive-fail counter
RecordSuccess(x) ==
  [x EXCEPT !.successCount = @ + 1, !.totalRequests = @ + 1,
            !.status = "alive", !.failCount = 0]

\* Proxy.RecordFail: counts the failure
RecordFail(x) ==
  [x EXCEPT !.failCount = @ + 1, !.totalRequests = @ + 1]

\* Proxy.RecordCaptcha: counts the captcha hit (counter left out)
RecordCaptcha(x) == x

\* Proxy.SetCooldown: cooldown-until = now + d
SetCooldown(x, d, now) == [x EXCEPT !.cooldownUntil = now + d]

\* Proxy.SuccessRate() < min, on exact integers
SuccessRateBelow(x, min) ==
  IF x.totalRequests = 0 THEN 0 < min
  ELSE x.successCount * 100 < min * x.totalRequests

NoOp == [op |-> "none", id |-> 0]

\* NewPool(config).  History fields: last (the last call and the proxy it
\* named or returned), captchaUntil (report time + CooldownDuration of the
\* last ReportCaptcha), failRun (ReportFailure calls in a row), owed (the
\* proxy had MaxFailures failures in a row and no sweep revived it since).
NewPool(config) ==
  [proxies |-> [id \in ProxyIds |-> NoProxy],
   alive |-> <<>>, dead |-> <<>>, quarantine |-> <<>>,
   config |-> config, totalRequests |-> 0, now |-> 0,
   last |-> NoOp,
   captchaUntil |-> [id \in ProxyIds |-> ZeroTime],
   failRun |-> [id \in ProxyIds |-> 0],
   owed |-> [id \in ProxyIds |-> FALSE]]

exists(p, id) == p.proxies[id].status # "none"

\* index of the first entry of list s naming id, 0 when there is none
IndexOf(s, id) ==
  IF \E i \in 1..Len(s) : s[i] = id
  THEN MinOf({i \in 1..Len(s) : s[i] = id})
  ELSE 0

\* for i, x := range s { if x.ID == id { s = append(s[:i], s[i+1:]...); break } }
RemoveFirst(s, id) ==
  IF IndexOf(s, id) = 0 THEN s ELSE RemoveAt(s, IndexOf(s, id))

AddProxy(p, id) ==
  IF exists(p, id) THEN [p EXCEPT !.last = NoOp]
  ELSE [p EXCEPT !.proxies[id] = [NewProxy EXCEPT !.status = "alive"],
                 !.alive = Append(@, id),
                 !.last = NoOp]

\* the slice `available` that Get builds
Available(p) ==
  SelectSeq(p.alive, LAMBDA id : IsAvailable(p.proxies[id], p.now))

\* the proxies weightedSelect can return: every weight is positive, so the
\* uniform draw can land on any of them
weightedSelect(proxies) == SeqToSet(proxies)

\* Get returning proxy id (one of weightedSelect(Available(p))), or the
\* error when id = 0
Get(p, id) == [p EXCEPT !.last = [op |-> "Get", id |-> id]]

quarantineProxy(p, id) ==
  [p EXCEPT !.proxies[id] =
              SetCooldown([@ EXCEPT !.status = "quarantined"],
                          p.config.QuarantineDuration, p.now),
            !.alive = RemoveFirst(@, id),
            !.quarantine = Append(@, id)]

\* reviveProxy without `proxy.FailCount = 0`
reviveProxy_KeepsFailCount(p, id) ==
  [p EXCEPT !.proxies[id] = [@ EXCEPT !.status = "alive"],
            !.quarantine = RemoveFirst(@, id),
            !.alive = Append(@, id),
            !.failRun[id] = 0,
            !.owed[id] = FALSE]

reviveProxy(p, id) ==
  [p EXCEPT !.proxies[id] = [@ EXCEPT !.status = "alive", !.failCount = 0],
            !.quarantine = RemoveFirst(@, id),
            !.alive = Append(@, id),
            !.failRun[id] = 0,
            !.owed[id] = FALSE]

ReportSuccess(p, id) ==
  IF ~exists(p, id) THEN [p EXCEPT !.last = NoOp]
  ELSE [p EXCEPT !.proxies[id] = RecordSuccess(@),
                 !.totalRequests = @ + 1,
                 !.failRun[id] = 0,
                 !.last = NoOp]

ReportFailure(p, id) ==
  IF ~exists(p, id) THEN [p EXCEPT !.last = NoOp]
  ELSE LET p1 == [p EXCEPT !.proxies[id] = RecordFail(@),
                           !.totalRequests = @ + 1,
                           !.failRun[id] = @ + 1,
                           !.last = [op |-> "ReportFailure", id |-> id]]
           p2 == IF p1.proxies[id].failCount >= p1.config.MaxFailures
                 THEN quarantineProxy(p1, id)
                 ELSE p1
       IN  [p2 EXCEPT !.owed[id] =
                        @ \/ p2.failRun[id] >= p2.config.MaxFailures]

ReportCaptcha(p, id) ==
  IF ~exists(p, id) THEN [p EXCEPT !.last = NoOp]
  ELSE [p EXCEPT !.proxies[id] =
                   SetCooldown(RecordCaptcha(@),
                               p.config.CooldownDuration, p.now),
                 !.captchaUntil[id] = p.now + p.config.CooldownDuration,
                 !.failRun[id] = 0,
                 !.last = NoOp]

ReportBlock(p, id) ==
  IF ~exists(p, id) THEN [p EXCEPT !.last = NoOp]
  ELSE [quarantineProxy(p, id) EXCEPT !.failRun[id] = 0, !.last = NoOp]

\* for _, proxy := range toRevive { p.reviveProxy(proxy) }
RECURSIVE reviveAll(_, _)
reviveAll(p, toRevive) ==
  IF toRevive = <<>> THEN p
  ELSE reviveAll(reviveProxy(p, Head(toRevive)), Tail(toRevive))

\* for _, proxy := range p.alive { ... p.quarantineProxy(proxy) }
\* The range reads cell k of the array the slice had when the loop began,
\* and quarantineProxy shifts the cells of that same array left in place:
\* `cells` is the array, of which p.alive is the prefix still in use.
RECURSIVE sweepAlive(_, _, _)
sweepAlive(p, cells, k) ==
  IF k > Len(cells) THEN p
  ELSE LET id == cells[k]
           x  == p.proxies[id]
           i  == IndexOf(p.alive, id)
           n  == Len(p.alive)
       IN  IF x.totalRequests >= MinRequestsForRate
              /\ SuccessRateBelow(x, p.config.MinSuccessRate)
           THEN sweepAlive(
                  [quarantineProxy(p, id) EXCEPT !.failRun[id] = 0],
                  IF i = 0 THEN cells
                  ELSE SubSeq(cells, 1, i - 1) \o SubSeq(cells, i + 1, n)
                       \o SubSeq(cells, n, Len(cells)),
                  k + 1)
           ELSE sweepAlive(p, cells, k + 1)

performHealthCheck(p) ==
  LET toRevive == SelectSeq(p.quarantine,
                    LAMBDA id : p.now > p.proxies[id].cooldownUntil)
      p1 == reviveAll(p, toRevive)
      p2 == sweepAlive(p1, p1.alive, 1)
  IN  [p2 EXCEPT !.last = NoOp]

(***************************************************************************)
(* PoolSpec: worker threads and the health-check ticker drive one Pool.    *)
(***************************************************************************)
\* configurations the pool is constructed with
PoolConfigs ==
  {[MaxFailures |-> 2, CooldownDuration |-> 3, QuarantineDuration |-> 1,
    MinSuccessRate |-> 50],
   [MaxFailures |-> 2, CooldownDuration |-> 1, QuarantineDuration |-> 2,
    MinSuccessRate |-> 50]}

PoolInit ==
  /\ pool \in {NewPool(c) : c \in PoolConfigs}
  /\ queue = "unused"
  /\ sched = "unused"
  /\ engine = "unused"
  /\ filt = "unused"
  /\ mgr = "unused"

\* the quarantine list has room for one more entry
QuarantineFits == Len(pool.quarantine) < MaxQuarantineLen

PAddProxy(id) ==
  /\ pool' = AddProxy(pool, id)
  /\ UNCHANGED <<queue, sched, engine, filt, mgr>>

PGet ==
  /\ \/ /\ Available(pool) = <<>>
        /\ pool' = Get(pool, 0)
     \/ \E id \in weightedSelect(Available(pool)) : pool' = Get(pool, id)
  /\ UNCHANGED <<queue, sched, engine, filt, mgr>>

PReportSuccess(id) ==
  /\ pool.totalRequests < MaxRequests
  /\ pool' = ReportSuccess(pool, id)
  /\ UNCHANGED <<queue, sched, engine, filt, mgr>>

PReportFailure(id) ==
  /\ pool.totalRequests < MaxRequests
  /\ QuarantineFits
  /\ pool' = ReportFailure(pool, id)
  /\ UNCHANGED <<queue, sched, engine, filt, mgr>>

PReportCaptcha(id) ==
  /\ pool' = ReportCaptcha(pool, id)
  /\ UNCHANGED <<queue, sched, engine, filt, mgr>>

PReportBlock(id) ==
  /\ QuarantineFits
  /\ pool' = ReportBlock(pool, id)
  /\ UNCHANGED <<queue, sched, engine, filt, mgr>>

PHealthCheck ==
  /\ pool' = performHealthCheck(pool)
  /\ UNCHANGED <<queue, sched, engine, filt, mgr>>

\* the clock advances
PTick ==
  /\ pool.now < MaxTime
  /\ pool' = [pool EXCEPT !.now = @ + 1]
  /\ UNCHANGED <<queue, sched, engine, filt, mgr>>

PoolNext ==
  \/ \E id \in ProxyIds : PAddProxy(id)
  \/ PGet
  \/ \E id \in ProxyIds : PReportSuccess(id)
  \/ \E id \in ProxyIds : PReportFailure(id)
  \/ \E id \in ProxyIds : PReportCaptcha(id)
  \/ \E id \in ProxyIds : PReportBlock(id)
  \/ PHealthCheck
  \/ PTick

PoolSpec == PoolInit /\ [][PoolNext]_vars

(***************************************************************************)
(* PoolSweepSpec: one proxy of the pool serves enough requests for the     *)
(* success-rate test of the health check (TotalRequests >= 10) to apply.   *)
(***************************************************************************)
\* requests reported to the pool in PoolSweepSpec
MaxSweepRequests == 10

\* the proxy the requests go through
BusyProxy == 1

PSweepReportSuccess ==
  /\ pool.totalRequests < MaxSweepRequests
  /\ pool' = ReportSuccess(pool, BusyProxy)
  /\ UNCHANGED <<queue, sched, engine, filt, mgr>>

PSweepReportFailure ==
  /\ pool.totalRequests < MaxSweepRequests
  /\ QuarantineFits
  /\ pool' = ReportFailure(pool, BusyProxy)
  /\ UNCHANGED <<queue, sched, engine, filt, mgr>>

PoolSweepNext ==
  \/ \E id \in ProxyIds : PAddProxy(id)
  \/ PGet
  \/ PSweepReportSuccess
  \/ PSweepReportFailure
  \/ PReportBlock(BusyProxy)
  \/ PHealthCheck
  \/ PTick

PoolSweepSpec == PoolInit /\ [][PoolSweepNext]_vars

(***************************************************************************)
(* Properties of the worker Pool.                                          *)
(***************************************************************************)
Count(s, id) == Cardinality({i \in 1..Len(s) : s[i] = id})

\* C3: once ReportCaptcha(p) has returned, no later Get returns p until the
\* time of the report plus CooldownDuration has passed.
C3_NoGetDuringCaptchaCooldown ==
  pool.last.op = "Get" /\ pool.last.id # 0
    => pool.now > pool.captchaUntil[pool.last.id]

\* C4: a proxy that had MaxFailures ReportFailure calls in a row is
\* quarantined when the last of them returns, and no Get returns it until a
\* health-check sweep has revived it.
C4_QuarantinedAfterMaxFailures ==
  \A id \in ProxyIds :
    pool.owed[id] =>
      /\ ~(pool.last.op = "Get" /\ pool.last.id = id)
      /\ pool.last = [op |-> "ReportFailure", id |-> id]
           => /\ pool.proxies[id].status = "quarantined"
              /\ IndexOf(pool.quarantine, id) # 0

\* C5: every proxy the pool knows is in exactly one of the lists alive,
\* quarantine and dead, exactly once, and in the one its status names.
C5_OneBucketMatchingStatus ==
  \A id \in ProxyIds :
    exists(pool, id) =>
      /\ Count(pool.alive, id) + Count(pool.quarantine, id)
           + Count(pool.dead, id) = 1
      /\ pool.proxies[id].status = "alive" <=> Count(pool.alive, id) = 1
      /\ pool.proxies[id].status = "quarantined"
           <=> Count(pool.quarantine, id) = 1
      /\ pool.proxies[id].status = "dead" <=> Count(pool.dead, id) = 1

(***************************************************************************)
(* FilterPipeline and UrlDeduplicator (src/src/filter/index.ts)            *)
(*                                                                         *)
(* A URL is a record: `text` holds the parts of the string the dedup key   *)
(* is computed from, the other fields are what the helpers of domain.js    *)
(* and the string tests of filterOne read off the string (its length, the  *)
(* verdict of isValidDomain, the keywords it contains).                    *)
(***************************************************************************)
\* URLs submitted between two reset() calls
MaxUrls == 3

\* DEFAULT_OPTIONS of the pipeline
DefaultMinUrlLength == 10
DefaultMaxUrlLength == 2000

\* bits of the Bloom filter
NumBits == 5

NoHost == <<>>

\* a string that holds only a host name (the key of the domain modes)
HostText(host) ==
  [scheme |-> "", host |-> host, path |-> "", upper |-> FALSE,
   slash |-> 0, track |-> "none", query |-> FALSE, ext |-> ""]

LastLabels(host, n) == SubSeq(host, Len(host) - n + 1, Len(host))

\* domain.js extractDomain: the host name, null (NoHost) when there is none
extractDomain(url) == url.text.host

\* UrlDeduplicator.extractTopDomain on a host name
secondLevelTlds == {<<"co", "uk">>, <<"com", "au">>}

extractTopDomain(host) ==
  IF Len(host) <= 2 THEN host
  ELSE IF LastLabels(host, 2) \in secondLevelTlds THEN LastLabels(host, 3)
  ELSE LastLabels(host, 2)

\* String.toLowerCase
toLowerCase(text) ==
  [text EXCEPT !.upper = FALSE,
               !.track = IF @ = "upper" THEN "lower" ELSE @]

\* UrlDeduplicator.normalizeUrl (caseSensitive false, removeTrackingParams
\* true).  slash counts the slashes the path ends with, of which one is
\* sliced off; track tells whether the query has a tracking parameter and
\* how it is spelled: params.delete removes the lower-case names of
\* TRACKING_PARAMS, and the closing toLowerCase turns an upper-case
\* spelling, which the delete left in place, into the lower-case one.
normalizeUrl(text) ==
  IF text.host = NoHost THEN toLowerCase(text)
  ELSE toLowerCase([text EXCEPT !.scheme = "http",
                                !.slash = IF @ > 0 THEN @ - 1 ELSE 0,
                                !.track = IF @ = "lower" THEN "none"
                                          ELSE @])

DedupModes == {"exact", "normalized", "domain", "topDomain"}

\* UrlDeduplicator.getKey
getKey(mode, text) ==
  CASE mode = "exact" -> toLowerCase(text)
    [] mode = "normalized" -> normalizeUrl(text)
    [] mode = "domain" -> HostText(text.host)
    [] mode = "topDomain" -> HostText(extractTopDomain(text.host))
    [] OTHER -> normalizeUrl(text)

Bit(b) == IF b THEN 1 ELSE 0

\* the bit positions the Bloom filter's hash functions give a key
hashes(key) ==
  {(Len(key.host) + key.slash + 2 * Bit(key.track # "none")) % 3,
   3 + ((Bit(key.upper) + Bit(key.query) + Bit(key.ext # "")) % 2)}

\* BloomFilter.has / BloomFilter.add
bloomHas(bits, key) == hashes(key) \subseteq bits

bloomAdd(bits, key) == bits \cup hashes(key)

\* new UrlDeduplicator(1000000, 0.01, {mode, ...}): Bloom filter only
NewUrlDeduplicator(mode) ==
  [bloomFilter |-> {}, exactSet |-> "null", mode |-> mode, count |-> 0]

\* a variant of add that forgets to insert the key
add_NoInsert(d, text) ==
  LET key == getKey(d.mode, text)
  IN  IF bloomHas(d.bloomFilter, key)
      THEN [d |-> d, isNew |-> FALSE]
      ELSE [d |-> [d EXCEPT !.count = @ + 1], isNew |-> TRUE]

\* UrlDeduplicator.add with exactSet = null
add(d, text) ==
  LET key == getKey(d.mode, text)
  IN  IF bloomHas(d.bloomFilter, key)
      THEN [d |-> d, isNew |-> FALSE]
      ELSE [d |-> [d EXCEPT !.bloomFilter = bloomAdd(@, key),
                            !.count = @ + 1],
            isNew |-> TRUE]

\* UrlDeduplicator.clear
clearDedup(d) == [d EXCEPT !.bloomFilter = {}, !.count = 0]

\* domain.js matchesPattern: a literal host, or *.suffix
matchesPattern(host, pattern) ==
  IF pattern.wild
  THEN Len(host) > Len(pattern.host)
       /\ LastLabels(host, Len(pattern.host)) = pattern.host
  ELSE host = pattern.host

\* AntiPublicFilter.isPublicDomain (filterSubdomains true)
isPublicDomain(publicDomains, host) ==
  \/ host \in publicDomains
  \/ extractTopDomain(host) \in publicDomains
  \/ \E pd \in publicDomains :
       matchesPattern(host, [wild |-> TRUE, host |-> pd])

Reasons ==
  {"invalid_url", "invalid_length", "no_domain", "invalid_domain",
   "tld_not_whitelisted", "tld_blacklisted", "domain_not_whitelisted",
   "domain_blacklisted", "extension_not_whitelisted",
   "extension_blacklisted", "keyword_not_found", "keyword_excluded",
   "no_params", "public_domain", "duplicate"}

ZeroStats == [total |-> 0, passed |-> 0, filtered |-> 0]

\* new FilterPipeline(options).  ledger is the domains table of the
\* AntiPublicFilter the pipeline holds (host -> hit_count; localDb and
\* trackNew keep their defaults true, the constructor passes options of
\* other names).  History fields: emitted (the URLs that passed since
\* construction or the last reset, in order) and suppressed (the URLs
\* rejected as duplicates since then).
NewFilterPipeline(options) ==
  [options |-> options,
   urlDedup |-> NewUrlDeduplicator(options.dedupMode),
   domains |-> {}, topDomains |-> {},
   ledger |-> <<>>,
   stats |-> ZeroStats,
   byReason |-> [r \in Reasons |-> 0],
   emitted |-> <<>>, suppressed |-> <<>>]

\* steps 1 to 13 of filterOne: the reason of the first step that fails, or
\* "none".  Every step is guarded by `passed`, so no later step runs.
firstReason(f, url) ==
  LET o == f.options
      domain == extractDomain(url)
      topDomain == IF domain = NoHost THEN NoHost
                   ELSE extractTopDomain(domain)
      tld == IF topDomain = NoHost THEN "" ELSE topDomain[Len(topDomain)]
      extension == url.text.ext
      listed(list) == \E pat \in list : \/ matchesPattern(domain, pat)
                                        \/ matchesPattern(topDomain, pat)
  IN  IF url.len = 0 THEN "invalid_url"
      ELSE IF url.len < o.minUrlLength \/ url.len > o.maxUrlLength
        THEN "invalid_length"
      ELSE IF domain = NoHost THEN "no_domain"
      ELSE IF ~url.valid THEN "invalid_domain"
      ELSE IF o.tldWhitelist # {} /\ tld \notin o.tldWhitelist
        THEN "tld_not_whitelisted"
      ELSE IF o.tldBlacklist # {} /\ tld \in o.tldBlacklist
        THEN "tld_blacklisted"
      ELSE IF o.domainWhitelist # {} /\ ~listed(o.domainWhitelist)
        THEN "domain_not_whitelisted"
      ELSE IF o.domainBlacklist # {} /\ listed(o.domainBlacklist)
        THEN "domain_blacklisted"
      ELSE IF extension # "" /\ o.extensionWhitelist # {}
              /\ extension \notin o.extensionWhitelist
        THEN "extension_not_whitelisted"
      ELSE IF extension # "" /\ extension \in o.extensionBlacklist
        THEN "extension_blacklisted"
      ELSE IF o.keywordInclude # {} /\ url.words \cap o.keywordInclude = {}
        THEN "keyword_not_found"
      ELSE IF o.keywordExclude # {} /\ url.words \cap o.keywordExclude # {}
        THEN "keyword_excluded"
      ELSE IF o.urlParamsOnly /\ ~(url.text.track # "none" \/ url.text.query)
        THEN "no_params"
      ELSE IF o.antiPublic /\ isPublicDomain(o.publicDomains, domain)
        THEN "public_domain"
      ELSE "none"

\* addReason and the statistics update of a rejected URL
reject(f, reason) ==
  [f EXCEPT !.byReason[reason] = @ + 1,
            !.stats.total = @ + 1,
            !.stats.filtered = @ + 1]

\* the statistics update of a URL that passed, and domainDedup.addDomain
accept(f, url) ==
  LET domain == extractDomain(url)
  IN  [f EXCEPT !.stats.total = @ + 1,
                !.stats.passed = @ + 1,
                !.domains = @ \cup {domain},
                !.topDomains = IF domain \in f.domains THEN @
                               ELSE @ \cup {extractTopDomain(domain)},
                !.emitted = Append(@, url)]

filterOne(f, url) ==
  LET reason == firstReason(f, url)
      r == add(f.urlDedup, url.text)
  IN  IF reason # "none" THEN reject(f, reason)
      ELSE IF ~f.options.removeDuplicates THEN accept(f, url)
      ELSE IF ~r.isNew
        THEN [reject(f, "duplicate") EXCEPT !.suppressed = Append(@, url)]
      ELSE accept([f EXCEPT !.urlDedup = r.d], url)

\* FilterPipeline.filter: filterOne on every URL of the batch
RECURSIVE filterAll(_, _)
filterAll(f, urls) ==
  IF urls = <<>> THEN f
  ELSE filterAll(filterOne(f, Head(urls)), Tail(urls))

\* FilterPipeline.reset
resetPipeline(f) ==
  [f EXCEPT !.urlDedup = clearDedup(@),
            !.domains = {}, !.topDomains = {},
            !.stats = ZeroStats,
            !.byReason = [r \in Reasons |-> 0],
            !.emitted = <<>>, !.suppressed = <<>>]

(***************************************************************************)
(* FilterSpec: result batches are passed through one FilterPipeline.       *)
(***************************************************************************)
SiteHosts == {<<"a", "com">>, <<"www", "a", "com">>}

\* URLs of the two hosts, in every spelling the normalization folds
SiteUrls ==
  {[text |-> [scheme |-> "http", host |-> h, path |-> "/x", upper |-> u,
              slash |-> s, track |-> t, query |-> FALSE, ext |-> ""],
    len |-> 20, valid |-> TRUE, words |-> {}] :
     h \in SiteHosts, u \in BOOLEAN, s \in {0, 1},
     t \in {"none", "lower"}}

PlainText ==
  [scheme |-> "http", host |-> <<"a", "com">>, path |-> "/x",
   upper |-> FALSE, slash |-> 0, track |-> "none", query |-> FALSE,
   ext |-> ""]

\* URLs that fail one of the steps before the deduplication
OddUrls ==
  {[text |-> HostText(NoHost), len |-> 0, valid |-> FALSE, words |-> {}],
   [text |-> PlainText, len |-> 5, valid |-> TRUE, words |-> {}],
   [text |-> [PlainText EXCEPT !.host = NoHost, !.scheme = ""],
    len |-> 20, valid |-> FALSE, words |-> {}],
   [text |-> PlainText, len |-> 20, valid |-> FALSE, words |-> {}],
   [text |-> [PlainText EXCEPT !.ext = ".jpg"],
    len |-> 20, valid |-> TRUE, words |-> {}],
   [text |-> [PlainText EXCEPT !.host = <<"github", "com">>],
    len |-> 20, valid |-> TRUE, words |-> {}]}

Urls == SiteUrls \cup OddUrls

\* batches of two URLs a result message carries
Batches ==
  {<<u, v>> :
     u \in {x \in SiteUrls : ~x.text.upper /\ x.text.track = "none"},
     v \in {x \in SiteUrls : ~x.text.upper /\ x.text.slash = 0}}

DefaultFilterOptions ==
  [removeDuplicates |-> TRUE, dedupMode |-> "normalized",
   domainWhitelist |-> {}, domainBlacklist |-> {},
   tldWhitelist |-> {}, tldBlacklist |-> {},
   urlParamsOnly |-> FALSE,
   minUrlLength |-> DefaultMinUrlLength,
   maxUrlLength |-> DefaultMaxUrlLength,
   keywordInclude |-> {}, keywordExclude |-> {},
   antiPublic |-> TRUE, publicDomains |-> {<<"github", "com">>},
   extensionWhitelist |-> {}, extensionBlacklist |-> {".jpg", ".png"}]

\* options the pipeline is constructed with
FilterOptionSets ==
  {[DefaultFilterOptions EXCEPT !.removeDuplicates = rd, !.dedupMode = m,
                                !.domainBlacklist = bl,
                                !.extensionWhitelist = wl] :
     rd \in BOOLEAN, m \in DedupModes,
     bl \in {{}, {[wild |-> FALSE, host |-> <<"www", "a", "com">>]}},
     wl \in {{}, {".php"}}}

FilterInit ==
  /\ filt \in {NewFilterPipeline(o) : o \in FilterOptionSets}
  /\ queue = "unused"
  /\ sched = "unused"
  /\ engine = "unused"
  /\ pool = "unused"
  /\ mgr = "unused"

FFilterOne(url) ==
  /\ filt.stats.total < MaxUrls
  /\ filt' = filterOne(filt, url)
  /\ UNCHANGED <<queue, sched, engine, pool, mgr>>

FFilter(urls) ==
  /\ filt.stats.total + Len(urls) <= MaxUrls
  /\ filt' = filterAll(filt, urls)
  /\ UNCHANGED <<queue, sched, engine, pool, mgr>>

FReset ==
  /\ filt' = resetPipeline(filt)
  /\ UNCHANGED <<queue, sched, engine, pool, mgr>>

FilterNext ==
  \/ \E url \in Urls : FFilterOne(url)
  \/ \E urls \in Batches : FFilter(urls)
  \/ FReset

FilterSpec == FilterInit /\ [][FilterNext]_vars

(***************************************************************************)
(* Properties of the filter pipeline.                                      *)
(***************************************************************************)
\* C8: with duplicate removal enabled, no two URLs the pipeline let pass
\* have the same dedup key (the same URL passing twice included).
C8_NoTwoEmittedShareKey ==
  filt.options.removeDuplicates =>
    \A i, j \in 1..Len(filt.emitted) :
      i # j => getKey(filt.options.dedupMode, filt.emitted[i].text)
               # getKey(filt.options.dedupMode, filt.emitted[j].text)

\* two different URLs with one key were submitted; the first passed and the
\* second was rejected as a duplicate
C8_Witness ==
  /\ filt.options.removeDuplicates
  /\ \E i \in 1..Len(filt.emitted), j \in 1..Len(filt.suppressed) :
       /\ filt.emitted[i].text # filt.suppressed[j].text
       /\ getKey(filt.options.dedupMode, filt.emitted[i].text)
            = getKey(filt.options.dedupMode, filt.suppressed[j].text)

(***************************************************************************)
(* Scheduler (src/src/filter/index.ts) and Engine (src/unnamed/part_004)   *)
(*                                                                         *)
(* Node runs one callback at a time: every action below is one callback    *)
(* (a public call, a timer, one message or event of the child process)     *)
(* together with the promise continuations it releases.  A world is the    *)
(* triple [q, s, e] of the queue, the scheduler and the engine.  The URLs  *)
(* a result carries are not modelled.                                      *)
(***************************************************************************)
\* task messages the engine sends
MaxSent == 3

\* the ids nanoid() gives Engine.sendTask: never the id of a queue task
EngineIds == (MaxTasks + 1)..(MaxTasks + MaxSent)

\* adjustConcurrency / reduceConcurrency / recordResult
IncreaseMargin == 5
IncreaseStep == 5
DecreaseStep == 10
RecentWindow == 100

\* new Scheduler(options).  stopPending tells that stop() is suspended at
\* its await; startRequested is a history field: start() was called and has
\* not yet set state running.
NewScheduler(options) ==
  [state |-> "idle", options |-> options,
   currentConcurrency |-> options.initialConcurrency,
   statsTimer |-> FALSE, processTimer |-> FALSE,
   totalDorks |-> 0, captchaCount |-> 0, blockCount |-> 0,
   recentResults |-> <<>>,
   stopPending |-> FALSE, startRequested |-> FALSE]

\* new Engine().  core is what the child process is doing ("none" when
\* there is no process, "booting" until it has answered init, then "up");
\* inflight are the ids of the task messages the core has not answered;
\* sentFor is a history field, the queue task each id was sent for.
NewEngine ==
  [state |-> "idle", process |-> FALSE, core |-> "none",
   readyPending |-> FALSE, startTimeout |-> FALSE, stopWaiting |-> FALSE,
   inflight |-> {}, nextId |-> MaxTasks + 1,
   sentFor |-> [id \in EngineIds |-> 0]]

\* ---- Engine -----------------------------------------------------------
\* Engine.start may proceed
engineCanStart(e) == e.state \in {"idle", "stopped", "error"}

\* Engine.start up to `return this.readyPromise`
engineStart(e) ==
  [e EXCEPT !.state = "starting", !.readyPending = TRUE,
            !.process = TRUE, !.core = "booting", !.inflight = {},
            !.startTimeout = TRUE]

\* Engine.stop up to its await: waits tells whether it awaits the exit
engineStop(e) ==
  IF e.state \in {"stopped", "idle"} THEN [e |-> e, waits |-> FALSE]
  ELSE IF e.process
    THEN [e |-> [e EXCEPT !.state = "stopping", !.startTimeout = FALSE,
                          !.stopWaiting = TRUE],
          waits |-> TRUE]
    ELSE [e |-> [e EXCEPT !.state = "stopped", !.startTimeout = FALSE],
          waits |-> FALSE]

enginePause(e) ==
  IF e.state # "running" THEN e ELSE [e EXCEPT !.state = "paused"]

engineResume(e) ==
  IF e.state # "paused" THEN e ELSE [e EXCEPT !.state = "running"]

\* Engine.sendTask for queue task qid: a fresh id; Engine.send drops the
\* message when there is no process
sendTask(e, qid) ==
  [e EXCEPT !.nextId = @ + 1,
            !.inflight = IF e.process THEN @ \cup {e.nextId} ELSE @,
            !.sentFor = IF e.nextId \in EngineIds
                        THEN [@ EXCEPT ![e.nextId] = qid] ELSE @]

setRunning(e) ==
  IF e.state \in {"ready", "paused"} THEN [e EXCEPT !.state = "running"]
  ELSE e

\* ---- Scheduler --------------------------------------------------------
stopTimers(s) == [s EXCEPT !.statsTimer = FALSE, !.processTimer = FALSE]

startStatsTimer(s) == [s EXCEPT !.statsTimer = TRUE]

scheduleNextProcess(s) == [s EXCEPT !.processTimer = TRUE]

\* addDorks skips blank lines and lines that start with #
Trim(line) == IF line = " " THEN "" ELSE line

StartsWithHash(line) == line = "#c"

RECURSIVE addDorks(_, _, _)
addDorks(q, dorks, priority) ==
  IF dorks = <<>> THEN q
  ELSE IF Trim(Head(dorks)) # "" /\ ~StartsWithHash(Trim(Head(dorks)))
    THEN addDorks(addDork(q, Trim(Head(dorks)), priority), Tail(dorks),
                  priority)
    ELSE addDorks(q, Tail(dorks), priority)

reset(w) ==
  [w EXCEPT !.q = clearAll(w.q),
            !.s = [w.s EXCEPT !.recentResults = <<>>,
                              !.captchaCount = 0, !.blockCount = 0,
                              !.totalDorks = 0,
                              !.currentConcurrency =
                                 w.s.options.initialConcurrency]]

RECURSIVE sendAll(_, _)
sendAll(e, tasks) ==
  IF tasks = <<>> THEN e ELSE sendAll(sendTask(e, Head(tasks)), Tail(tasks))

processQueue(w) ==
  IF w.s.state # "running" THEN w
  ELSE LET availableSlots ==
             w.s.currentConcurrency - Cardinality(w.q.running)
           b == getNextBatch(w.q, availableSlots)
       IN  IF availableSlots <= 0
             THEN [w EXCEPT !.s = scheduleNextProcess(w.s)]
           ELSE IF b.tasks = <<>>
             THEN IF b.q.running = {} THEN w
                  ELSE [w EXCEPT !.s = scheduleNextProcess(w.s)]
           ELSE [w EXCEPT !.q = b.q,
                          !.e = setRunning(sendAll(w.e, b.tasks)),
                          !.s = scheduleNextProcess(w.s)]

\* Scheduler.start after `await this.engine.start(config)` has resolved
startContinuation(w) ==
  processQueue([w EXCEPT !.s = startStatsTimer(
                                 [w.s EXCEPT !.state = "running",
                                             !.startRequested = FALSE])])

\* Scheduler.start up to its await; the scheduler may start in state
\* idle, stopped or completed, and Engine.start may throw
schedulerCanStart(s) == s.state \in {"idle", "stopped", "completed"}

start(w, dorks) ==
  IF ~schedulerCanStart(w.s) THEN w
  ELSE LET w1 == reset(w)
           w2 == [w1 EXCEPT !.s = [w1.s EXCEPT !.totalDorks = Len(dorks),
                                               !.startRequested = TRUE],
                            !.q = addDorks(w1.q, dorks, NORMAL)]
       IN  IF engineCanStart(w2.e)
           THEN [w2 EXCEPT !.e = engineStart(w2.e)]
           ELSE w2

\* pause() that hands out one more batch before it suspends
pause_FlushFirst(w) ==
  IF w.s.state # "running" THEN w
  ELSE LET w1 == processQueue(w)
       IN  [w1 EXCEPT !.s = stopTimers([w1.s EXCEPT !.state = "paused"]),
                      !.e = enginePause(w1.e),
                      !.q = pauseQueue(w1.q)]

pause(w) ==
  IF w.s.state # "running" THEN w
  ELSE [w EXCEPT !.s = stopTimers([w.s EXCEPT !.state = "paused"]),
                 !.e = enginePause(w.e),
                 !.q = pauseQueue(w.q)]

resume(w) ==
  IF w.s.state # "paused" THEN w
  ELSE processQueue(
         [w EXCEPT !.s = startStatsTimer([w.s EXCEPT !.state = "running"]),
                   !.e = engineResume(w.e),
                   !.q = resumeQueue(w.q)])

\* the rest of stop() without `this.state = 'stopped'`
stopContinuation_NoStopped(w) ==
  [w EXCEPT !.q = pauseQueue(w.q),
            !.s = [w.s EXCEPT !.stopPending = FALSE]]

\* Scheduler.stop after `await this.engine.stop()`
stopContinuation(w) ==
  [w EXCEPT !.q = pauseQueue(w.q),
            !.s = [w.s EXCEPT !.state = "stopped", !.stopPending = FALSE]]

stop(w) ==
  IF w.s.state \in {"stopped", "idle"} THEN w
  ELSE LET s1 == stopTimers([w.s EXCEPT !.state = "stopping"])
           r == engineStop(w.e)
       IN  IF r.waits
           THEN [w EXCEPT !.s = [s1 EXCEPT !.stopPending = TRUE], !.e = r.e]
           ELSE stopContinuation([w EXCEPT !.s = s1, !.e = r.e])

handleQueueDrained(w) ==
  IF w.s.state # "running" THEN w
  ELSE [w EXCEPT !.s = stopTimers([w.s EXCEPT !.state = "completed"])]

\* the queueDrained listener runs inside complete() / fail()
afterQueueCall(w) ==
  IF w.q.signal = "queueDrained" THEN handleQueueDrained(w) ELSE w

recordResult(s, success) ==
  LET r == Append(s.recentResults, success)
  IN  [s EXCEPT !.recentResults =
                  IF Len(r) > RecentWindow THEN Tail(r) ELSE r]

\* getRecentSuccessRate() >= rate, on exact integers
RecentSuccessRateAtLeast(s, rate) ==
  IF s.recentResults = <<>> THEN 100 >= rate
  ELSE Cardinality({i \in 1..Len(s.recentResults) : s.recentResults[i]}) * 100
         >= rate * Len(s.recentResults)

\* adjustConcurrency that does not look at the success rate
adjustConcurrency_IgnoresRate(w) ==
  IF w.s.currentConcurrency < w.s.options.maxConcurrency
  THEN LET c == Min2(w.s.currentConcurrency + IncreaseStep,
                     w.s.options.maxConcurrency)
       IN  [w EXCEPT !.s = [w.s EXCEPT !.currentConcurrency = c],
                     !.q = setMaxConcurrent(w.q, c)]
  ELSE w

adjustConcurrency(w) ==
  IF RecentSuccessRateAtLeast(w.s, w.s.options.targetSuccessRate
                                     + IncreaseMargin)
     /\ w.s.currentConcurrency < w.s.options.maxConcurrency
  THEN LET c == Min2(w.s.currentConcurrency + IncreaseStep,
                     w.s.options.maxConcurrency)
       IN  [w EXCEPT !.s = [w.s EXCEPT !.currentConcurrency = c],
                     !.q = setMaxConcurrent(w.q, c)]
  ELSE w

reduceConcurrency(w) ==
  IF w.s.currentConcurrency > w.s.options.minConcurrency
  THEN LET c == Max2(w.s.currentConcurrency - DecreaseStep,
                     w.s.options.minConcurrency)
       IN  [w EXCEPT !.s = [w.s EXCEPT !.currentConcurrency = c],
                     !.q = setMaxConcurrent(w.q, c)]
  ELSE w

\* handleResult for a result message whose task_id is taskId
handleResult(w, taskId, hasNextPage) ==
  LET w1 == [w EXCEPT !.s = recordResult(w.s, TRUE)]
      w2 == afterQueueCall(
              [w1 EXCEPT !.q = complete(w1.q, taskId,
                                        hasNextPage /\ w1.s.options.autoPages)])
  IN  IF w2.s.options.adaptiveConcurrency THEN adjustConcurrency(w2) ELSE w2

\* Scheduler.handleError for an error message with a task_id
handleError(w, taskId, fatal) ==
  LET w1 == [w EXCEPT !.s = recordResult(w.s, FALSE)]
      w2 == afterQueueCall([w1 EXCEPT !.q = fail(w1.q, taskId, ~fatal)])
  IN  IF fatal THEN stop(w2) ELSE w2

handleBlocked(w, taskId, reason) ==
  LET s1 == recordResult(w.s, FALSE)
      s2 == [s1 EXCEPT !.blockCount = @ + 1,
                       !.captchaCount = IF reason = "captcha" THEN @ + 1
                                        ELSE @]
      w2 == afterQueueCall([w EXCEPT !.s = s2,
                                     !.q = block(w.q, taskId)])
  IN  IF w2.s.options.adaptiveConcurrency THEN reduceConcurrency(w2) ELSE w2

\* Engine.handleError after the scheduler's listener has run
engineHandleError(w, fatal) ==
  IF fatal
  THEN [w EXCEPT !.e = [w.e EXCEPT !.state = "error", !.readyPending = FALSE]]
  ELSE w

\* Engine.handleReady and, when Scheduler.start awaits it, the rest of start
engineReady(w) ==
  LET e1 == [w.e EXCEPT !.state = "ready", !.startTimeout = FALSE,
                        !.core = "up", !.readyPending = FALSE]
  IN  IF w.e.readyPending THEN startContinuation([w EXCEPT !.e = e1])
      ELSE [w EXCEPT !.e = e1]

\* the exit event: Engine.handleExit, then a waiting Engine.stop, then a
\* waiting Scheduler.stop
engineExit(w) ==
  LET down == [w.e EXCEPT !.process = FALSE, !.core = "none",
                          !.inflight = {}]
      e1 == IF w.e.state \notin {"stopping", "stopped"}
            THEN [down EXCEPT !.state = "error", !.readyPending = FALSE]
            ELSE [down EXCEPT !.state = "stopped"]
      e2 == IF w.e.stopWaiting
            THEN [e1 EXCEPT !.state = "stopped", !.stopWaiting = FALSE]
            ELSE e1
  IN  IF w.s.stopPending THEN stopContinuation([w EXCEPT !.e = e2])
      ELSE [w EXCEPT !.e = e2]

\* the 30 s startup timer of Engine.start
engineStartTimeout(w) ==
  IF w.e.state = "starting"
  THEN [w EXCEPT !.e = engineStop([w.e EXCEPT !.state = "error",
                                              !.readyPending = FALSE]).e]
  ELSE [w EXCEPT !.e = [w.e EXCEPT !.startTimeout = FALSE]]

(***************************************************************************)
(* SchedSpec: a caller, the timers and the child process drive one         *)
(* Scheduler with its queue and engine.                                    *)
(***************************************************************************)
SchedOptionSets ==
  {[initialConcurrency |-> 1, minConcurrency |-> 1, maxConcurrency |-> 6,
    adaptiveConcurrency |-> TRUE, targetSuccessRate |-> 90,
    autoPages |-> TRUE, pagesPerDork |-> 2, maxRetries |-> 1],
   [initialConcurrency |-> 2, minConcurrency |-> 1, maxConcurrency |-> 2,
    adaptiveConcurrency |-> FALSE, targetSuccessRate |-> 90,
    autoPages |-> TRUE, pagesPerDork |-> 2, maxRetries |-> 1],
   [initialConcurrency |-> 1, minConcurrency |-> 1, maxConcurrency |-> 1,
    adaptiveConcurrency |-> FALSE, targetSuccessRate |-> 90,
    autoPages |-> FALSE, pagesPerDork |-> 2, maxRetries |-> 2],
   [initialConcurrency |-> 2, minConcurrency |-> 1, maxConcurrency |-> 3,
    adaptiveConcurrency |-> TRUE, targetSuccessRate |-> 90,
    autoPages |-> TRUE, pagesPerDork |-> 2, maxRetries |-> 1],
   \* what the run command builds: only initialConcurrency is given (the
   \* --threads option) and the floor and the ceiling keep their defaults
   [initialConcurrency |-> 1, minConcurrency |-> 2, maxConcurrency |-> 3,
    adaptiveConcurrency |-> TRUE, targetSuccessRate |-> 90,
    autoPages |-> TRUE, pagesPerDork |-> 2, maxRetries |-> 1],
   [initialConcurrency |-> 14, minConcurrency |-> 1, maxConcurrency |-> 3,
    adaptiveConcurrency |-> TRUE, targetSuccessRate |-> 90,
    autoPages |-> TRUE, pagesPerDork |-> 2, maxRetries |-> 1]}

\* dork lists a caller starts the scheduler with
DorkLists ==
  {<<>>, <<"a">>, <<"a", "b">>, <<"b", "a">>, <<"a", "a">>, <<"#c", "a">>,
   <<" ">>}

BlockReasons == {"captcha", "rate_limit"}

World == [q |-> queue, s |-> sched, e |-> engine]

SchedInit ==
  /\ \E o \in SchedOptionSets :
       /\ sched = NewScheduler(o)
       /\ queue = NewTaskQueue(o.initialConcurrency, o.maxRetries,
                               o.pagesPerDork)
  /\ engine = NewEngine
  /\ pool = "unused"
  /\ filt = "unused"
  /\ mgr = "unused"

\* the world after a callback; the engine has ids left for what it sent
Becomes(w) ==
  /\ w.e.nextId <= MaxTasks + MaxSent + 1
  /\ queue' = w.q
  /\ sched' = w.s
  /\ engine' = w.e
  /\ UNCHANGED <<pool, filt, mgr>>

\* Scheduler.start throws unless idle, stopped or completed
SStart(dorks) ==
  /\ schedulerCanStart(sched)
  /\ Becomes(start(World, dorks))

\* Scheduler.pause returns at once unless running
SPause ==
  /\ sched.state = "running"
  /\ Becomes(pause(World))

\* Scheduler.resume returns at once unless paused
SResume ==
  /\ sched.state = "paused"
  /\ Becomes(resume(World))

\* Scheduler.stop returns at once when stopped or idle
SStop ==
  /\ sched.state \notin {"stopped", "idle"}
  /\ Becomes(stop(World))

\* the process timer fires
STick ==
  /\ sched.processTimer
  /\ Becomes(processQueue([World EXCEPT !.s.processTimer = FALSE]))

\* the core answers init
EReady ==
  /\ engine.process /\ engine.core = "booting"
  /\ Becomes(engineReady(World))

\* the core reports a result for a task message
EResult(id, hasNextPage) ==
  /\ id \in engine.inflight
  /\ Becomes(handleResult([World EXCEPT !.e.inflight = @ \ {id}],
                          id, hasNextPage))

\* the core reports a block for a task message
EBlocked(id, reason) ==
  /\ id \in engine.inflight
  /\ Becomes(handleBlocked([World EXCEPT !.e.inflight = @ \ {id}],
                           id, reason))

\* the core reports an error for a task message
EError(id, fatal) ==
  /\ id \in engine.inflight
  /\ Becomes(engineHandleError(
               handleError([World EXCEPT !.e.inflight = @ \ {id}], id, fatal),
               fatal))

\* the child process exits
EExit ==
  /\ engine.process
  /\ Becomes(engineExit(World))

EStartTimeout ==
  /\ engine.startTimeout
  /\ Becomes(engineStartTimeout(World))

SchedNext ==
  \/ \E dorks \in DorkLists : SStart(dorks)
  \/ SPause
  \/ SResume
  \/ SStop
  \/ STick
  \/ EReady
  \/ \E id \in EngineIds, h \in BOOLEAN : EResult(id, h)
  \/ \E id \in EngineIds, r \in BlockReasons : EBlocked(id, r)
  \/ \E id \in EngineIds, f \in BOOLEAN : EError(id, f)
  \/ EExit
  \/ EStartTimeout

SchedSpec == SchedInit /\ [][SchedNext]_vars

(***************************************************************************)
(* SchedLiveSpec: one run that nobody pauses or stops, with a child        *)
(* process that answers init and every task message it was sent.           *)
(***************************************************************************)
EOutcome ==
  \/ \E id \in EngineIds, h \in BOOLEAN : EResult(id, h)
  \/ \E id \in EngineIds, r \in BlockReasons : EBlocked(id, r)
  \/ \E id \in EngineIds : EError(id, FALSE)

SchedLiveNext ==
  \/ \E dorks \in DorkLists : SStart(dorks)
  \/ STick
  \/ EReady
  \/ EOutcome

SchedLiveSpec ==
  /\ SchedInit
  /\ [][SchedLiveNext]_vars
  /\ WF_vars(STick)
  /\ WF_vars(EReady)
  /\ WF_vars(EOutcome)

(***************************************************************************)
(* SchedOwnerSpec: SchedLiveSpec in a process where another holder of the  *)
(* queue singleton (getTaskQueue()) reports tasks complete under their     *)
(* queue ids; the scheduler's queueDrained listener runs inside that call. *)
(***************************************************************************)
QueueOwnerComplete(id, hasNextPage) ==
  /\ id \in queue.running
  /\ SpawnFits(queue, id, hasNextPage)
  /\ Becomes(afterQueueCall(
               [World EXCEPT !.q = complete(queue, id, hasNextPage)]))

SchedOwnerNext ==
  \/ SchedLiveNext
  \/ \E id \in TaskIds, h \in BOOLEAN : QueueOwnerComplete(id, h)

SchedOwnerSpec ==
  /\ SchedInit
  /\ [][SchedOwnerNext]_vars
  /\ WF_vars(STick)
  /\ WF_vars(EReady)
  /\ WF_vars(EOutcome)

(***************************************************************************)
(* SchedStopSpec: SchedSpec with a child process that exits once           *)
(* Engine.stop waits for it (it obeys the stop message, or Engine.stop     *)
(* kills it after 5 s).                                                    *)
(***************************************************************************)
EStopExit ==
  /\ engine.stopWaiting
  /\ EExit

SchedStopSpec ==
  /\ SchedInit
  /\ [][SchedNext]_vars
  /\ WF_vars(EStopExit)

(***************************************************************************)
(* Properties of the Scheduler.                                            *)
(***************************************************************************)
\* C2: after a Start with a non-empty dork list (one that put at least one
\* task into the queue), when the engine reports an outcome for every task
\* it was sent, the scheduler reaches state completed.
C2_EventuallyCompleted ==
  (sched.state = "running" /\ sched.totalDorks > 0 /\ queue.ingested > 0)
    ~> (sched.state = "completed")

\* C11: currentConcurrency lies within [minConcurrency, maxConcurrency] at
\* all times: after construction, after every Start (reset) and after every
\* adaptive increase or decrease.
C11_ConcurrencyWithinBounds ==
  /\ sched.currentConcurrency >= sched.options.minConcurrency
  /\ sched.currentConcurrency <= sched.options.maxConcurrency

\* a step that takes no task from pending and sends no task message
NoDispatch ==
  /\ engine'.nextId = engine.nextId
  /\ \A id \in TaskIds : queue'.tasks[id].handouts <= queue.tasks[id].handouts
  /\ queue'.running \subseteq queue.running

\* C12: while the scheduler is in state paused no task is dequeued from
\* pending and none is dispatched to the engine: neither the call that
\* pauses, nor any callback that runs while paused (an outcome, a timer, an
\* exit, a stop), takes a task from pending or sends one; only resume does.
C12_NoDispatchWhilePaused ==
  [][(sched'.state = "paused"
        \/ (sched.state = "paused" /\ sched'.state # "running"))
       => NoDispatch]_vars

\* paused with work pending and free slots, after an outcome was handled
C12_Witness ==
  /\ sched.state = "paused"
  /\ queue.pending # <<>>
  /\ Cardinality(queue.running) < sched.currentConcurrency
  /\ Cardinality(queue.running) < queue.maxConcurrent
  /\ sched.recentResults # <<>>

C14_StartReachesRunning ==
  sched.startRequested ~> (sched.state = "running")

(***************************************************************************)
(* Properties of the health-check sweep.                                   *)
(***************************************************************************)
\* the proxies the sweep finds in the quarantine list with an expired
\* cooldown
ExpiredInQuarantine(p) ==
  {id \in ProxyIds : /\ IndexOf(p.quarantine, id) # 0
                     /\ p.now > p.proxies[id].cooldownUntil}

\* alive again: status, bucket and fail counter
Revived(p, id) ==
  /\ p.proxies[id].status = "alive"
  /\ p.proxies[id].failCount = 0
  /\ IndexOf(p.alive, id) # 0
  /\ IndexOf(p.quarantine, id) = 0

\* the second pass of the sweep applies to the proxy
LowSuccessRate(p, id) ==
  /\ p.proxies[id].totalRequests >= MinRequestsForRate
  /\ SuccessRateBelow(p.proxies[id], p.config.MinSuccessRate)

\* C15: a health-check sweep revives every quarantined proxy whose cooldown
\* has expired: when the sweep returns, each such proxy has status alive, a
\* reset failure counter, and is in the alive list and no longer in the
\* quarantine list.
C15_SweepRevivesExpired ==
  [][pool' = performHealthCheck(pool)
       => \A id \in ExpiredInQuarantine(pool) : Revived(pool', id)]_vars

\* C15 as the code has it: the sweep resets the failure counter of every
\* quarantined proxy whose cooldown has expired, and when it returns the
\* proxy is alive, in the alive list and out of the quarantine list, unless
\* the proxy has at least 10 requests and a success rate below
\* MinSuccessRate: the second pass of the same sweep may quarantine such a
\* proxy again.
C15_SweepRevivesExpiredUnlessLowRate ==
  [][pool' = performHealthCheck(pool)
       => \A id \in ExpiredInQuarantine(pool) :
            /\ pool'.proxies[id].failCount = 0
            /\ Revived(pool', id) \/ LowSuccessRate(pool, id)]_vars

\* a proxy that only ever failed is alive with a reset failure counter:
\* a sweep has revived it
C15_Witness ==
  \E id \in ProxyIds :
    /\ Revived(pool, id)
    /\ pool.proxies[id].totalRequests >= pool.config.MaxFailures
    /\ pool.proxies[id].successCount = 0

(***************************************************************************)
(* core Manager (src/core/internal/proxy/manager.go)                       *)
(*                                                                         *)
(* A method that takes m.mu.Lock() runs alone, so it is one atomic step    *)
(* that needs the set of read-lock holders to be empty.  GetAlive takes    *)
(* m.mu.RLock(), which other readers may hold at the same time, and runs   *)
(* checkQuarantine under it: its release loop is one step per iteration,   *)
(* so that two readers interleave.  Success, captcha and ban counters,     *)
(* latency and the usage times are read by no decision and are left out.   *)
(***************************************************************************)
\* last reading of the clock
MaxMgrTime == 4
\* goroutines that call GetAlive
MaxMgrThreads == 2
\* failures counted for one proxy
MaxMgrFails == 2
\* entries of one bucket list (a list can hold a proxy more than once)
MaxMgrListLen == 2

MgrThreads == 1..MaxMgrThreads

\* m.proxies[id] for an id that is not a key of the map
NoMgrProxy ==
  [status |-> "none", failCount |-> 0, quarantineUntil |-> ZeroTime]

\* the Proxy that ParseProxy builds
ParseProxy ==
  [status |-> "unknown", failCount |-> 0, quarantineUntil |-> ZeroTime]

\* NewManager(config).  readers are the goroutines that hold the read lock,
\* toRelease[t] is the local slice of goroutine t inside checkQuarantine.
NewManager(config) ==
  [proxies |-> [id \in ProxyIds |-> NoMgrProxy],
   alive |-> <<>>, quarantined |-> <<>>, dead |-> <<>>,
   quarantineDur |-> config.QuarantineDuration,
   maxFailCount |-> config.MaxFailCount,
   now |-> 0, readers |-> {},
   toRelease |-> [t \in MgrThreads |-> <<>>]]

removeFromSlice(slice, id) == RemoveFirst(slice, id)

inSlice(slice, id) == IndexOf(slice, id) # 0

mgrHas(m, id) == m.proxies[id].status # "none"

mgrAdd(m, id) ==
  IF mgrHas(m, id) THEN m
  ELSE [m EXCEPT !.proxies[id] = ParseProxy, !.alive = Append(@, id)]

mgrRemove(m, id) ==
  IF ~mgrHas(m, id) THEN m
  ELSE [m EXCEPT !.proxies[id] = NoMgrProxy,
                 !.alive = removeFromSlice(@, id),
                 !.quarantined = removeFromSlice(@, id),
                 !.dead = removeFromSlice(@, id)]

MarkAlive(m, id) ==
  IF ~mgrHas(m, id) THEN m
  ELSE LET wasQuarantined == m.proxies[id].status = "quarantined"
           wasDead == m.proxies[id].status = "dead"
           m1 == [m EXCEPT !.proxies[id] =
                             [@ EXCEPT !.status = "alive", !.failCount = 0]]
       IN  IF wasQuarantined
           THEN [m1 EXCEPT !.quarantined = removeFromSlice(@, id),
                           !.alive = Append(@, id)]
           ELSE IF wasDead
           THEN [m1 EXCEPT !.dead = removeFromSlice(@, id),
                           !.alive = Append(@, id)]
           ELSE m1

MarkSlow(m, id) ==
  IF ~mgrHas(m, id) THEN m
  ELSE [m EXCEPT !.proxies[id].status = "slow"]

\* quarantineProxy of the Manager: QuarantineUntil is set only when zero
mgrQuarantineProxy(m, id) ==
  [m EXCEPT !.proxies[id] =
              [@ EXCEPT !.status = "quarantined",
                        !.quarantineUntil =
                           IF @ = ZeroTime THEN m.now + m.quarantineDur
                           ELSE @],
            !.alive = removeFromSlice(@, id),
            !.quarantined = IF inSlice(@, id) THEN @ ELSE Append(@, id)]

MarkFailed(m, id) ==
  IF ~mgrHas(m, id) THEN m
  ELSE LET m1 == [m EXCEPT !.proxies[id].failCount = @ + 1]
       IN  IF m1.proxies[id].failCount >= m1.maxFailCount
           THEN mgrQuarantineProxy(m1, id)
           ELSE m1

MarkDead(m, id) ==
  IF ~mgrHas(m, id) THEN m
  ELSE [m EXCEPT !.proxies[id].status = "dead",
                 !.alive = removeFromSlice(@, id),
                 !.quarantined = removeFromSlice(@, id),
                 !.dead = IF inSlice(@, id) THEN @ ELSE Append(@, id)]

MarkBanned(m, id) ==
  IF ~mgrHas(m, id) THEN m
  ELSE [m EXCEPT !.proxies[id] =
                   [@ EXCEPT !.status = "banned",
                             !.quarantineUntil = m.now + m.quarantineDur * 3],
                 !.alive = removeFromSlice(@, id),
                 !.quarantined = IF inSlice(@, id) THEN @ ELSE Append(@, id)]

MarkCaptcha(m, id) ==
  IF ~mgrHas(m, id) THEN m ELSE mgrQuarantineProxy(m, id)

Quarantine(m, id, duration) ==
  IF ~mgrHas(m, id) THEN m
  ELSE mgrQuarantineProxy(
         [m EXCEPT !.proxies[id].quarantineUntil = m.now + duration], id)

\* checkQuarantine, first loop: the proxies to release
expiredQuarantined(m) ==
  SelectSeq(m.quarantined,
            LAMBDA id : m.now > m.proxies[id].quarantineUntil)

\* checkQuarantine, one iteration of the second loop
releaseOne(m, id) ==
  [m EXCEPT !.proxies[id] = [@ EXCEPT !.status = "alive", !.failCount = 0],
            !.quarantined = removeFromSlice(@, id),
            !.alive = Append(@, id)]

(***************************************************************************)
(* ManagerSpec: callers report outcomes and administer proxies, and        *)
(* goroutines of the rotator call GetAlive.                                *)
(***************************************************************************)
ManagerConfigs == {[QuarantineDuration |-> 1, MaxFailCount |-> 2]}

QuarantineDurations == {2}

ManagerInit ==
  /\ mgr \in {NewManager(c) : c \in ManagerConfigs}
  /\ queue = "unused"
  /\ sched = "unused"
  /\ engine = "unused"
  /\ pool = "unused"
  /\ filt = "unused"

\* the bucket lists stay within the bound
MgrFits(m) ==
  /\ Len(m.alive) <= MaxMgrListLen
  /\ Len(m.quarantined) <= MaxMgrListLen
  /\ Len(m.dead) <= MaxMgrListLen

\* m.mu.Lock(): no goroutine holds the read lock
Exclusive(m) ==
  /\ mgr.readers = {}
  /\ MgrFits(m)
  /\ mgr' = m
  /\ UNCHANGED <<queue, sched, engine, pool, filt>>

MAdd(id) == Exclusive(mgrAdd(mgr, id))

MRemove(id) == Exclusive(mgrRemove(mgr, id))

MMarkAlive(id) == Exclusive(MarkAlive(mgr, id))

MMarkSlow(id) == Exclusive(MarkSlow(mgr, id))

MMarkFailed(id) ==
  /\ mgr.proxies[id].failCount < MaxMgrFails
  /\ Exclusive(MarkFailed(mgr, id))

MMarkDead(id) == Exclusive(MarkDead(mgr, id))

MMarkBanned(id) == Exclusive(MarkBanned(mgr, id))

MMarkCaptcha(id) == Exclusive(MarkCaptcha(mgr, id))

MQuarantine(id, duration) ==
  Exclusive(Quarantine(mgr, id, duration))

\* GetAlive by goroutine t: m.mu.RLock() and the first loop of
\* checkQuarantine (with nothing to release the call changes nothing)
MGetAliveBegin(t) ==
  /\ t \notin mgr.readers
  /\ LET found == expiredQuarantined(mgr)
     IN  /\ found # <<>>
         /\ mgr' = [mgr EXCEPT !.readers = @ \cup {t},
                               !.toRelease[t] = found]
  /\ UNCHANGED <<queue, sched, engine, pool, filt>>

\* GetAlive by goroutine t: one iteration of the release loop; after the
\* last one it copies m.alive, unlocks and returns
MGetAliveRelease(t) ==
  /\ t \in mgr.readers
  /\ LET id == Head(mgr.toRelease[t])
         rest == Tail(mgr.toRelease[t])
         m1 == [releaseOne(mgr, id) EXCEPT !.toRelease[t] = rest]
     IN  /\ MgrFits(m1)
         /\ mgr' = IF rest = <<>> THEN [m1 EXCEPT !.readers = @ \ {t}] ELSE m1
  /\ UNCHANGED <<queue, sched, engine, pool, filt>>

\* the clock advances
MTick ==
  /\ mgr.now < MaxMgrTime
  /\ mgr' = [mgr EXCEPT !.now = @ + 1]
  /\ UNCHANGED <<queue, sched, engine, pool, filt>>

ManagerNext ==
  \/ \E id \in ProxyIds : MAdd(id)
  \/ \E id \in ProxyIds : MRemove(id)
  \/ \E id \in ProxyIds : MMarkAlive(id)
  \/ \E id \in ProxyIds : MMarkSlow(id)
  \/ \E id \in ProxyIds : MMarkFailed(id)
  \/ \E id \in ProxyIds : MMarkDead(id)
  \/ \E id \in ProxyIds : MMarkBanned(id)
  \/ \E id \in ProxyIds : MMarkCaptcha(id)
  \/ \E id \in ProxyIds, d \in QuarantineDurations : MQuarantine(id, d)
  \/ \E t \in MgrThreads : MGetAliveBegin(t)
  \/ \E t \in MgrThreads : MGetAliveRelease(t)
  \/ MTick

ManagerSpec == ManagerInit /\ [][ManagerNext]_vars

(***************************************************************************)
(* Properties of the core Manager.                                         *)
(***************************************************************************)
\* a step that is one of the administrative calls Remove, MarkDead,
\* MarkBanned and Quarantine (as opposed to an outcome report MarkAlive,
\* MarkSlow, MarkFailed, MarkCaptcha, or the release inside GetAlive)
AdministrativeStep ==
  \E id \in ProxyIds :
    \/ mgr' = mgrRemove(mgr, id)
    \/ mgr' = MarkDead(mgr, id)
    \/ mgr' = MarkBanned(mgr, id)
    \/ \E d \in QuarantineDurations : mgr' = Quarantine(mgr, id, d)

\* C16: dead and banned are terminal proxy states: once a proxy's status is
\* dead or banned, no outcome report and no automatic quarantine release
\* changes its status or puts it back in the alive bucket.
C16_DeadAndBannedTerminal ==
  [][\A id \in ProxyIds :
       (mgr.proxies[id].status \in {"dead", "banned"} /\ ~AdministrativeStep)
       => /\ mgr'.proxies[id].status = mgr.proxies[id].status
          /\ inSlice(mgr'.alive, id) => inSlice(mgr.alive, id)]_vars

\* the shared state the lock protects
MgrData(m) == <<m.proxies, m.alive, m.quarantined, m.dead>>

\* C17: every operation that mutates shared proxy-pool state (bucket
\* lists, proxy status or counters) runs while holding the exclusive lock;
\* an operation holding only the shared (read) lock modifies nothing: no
\* step changes the shared state while a goroutine holds the read lock.
C17_MutationsHoldExclusiveLock ==
  [][MgrData(mgr') # MgrData(mgr) => mgr.readers = {}]_vars

(***************************************************************************)
(* Further properties of the Scheduler and the TaskQueue.                  *)
(***************************************************************************)
\* the scheduler applies the outcome the core reported for task message id
OutcomeApplied(id) ==
  \/ \E h \in BOOLEAN : EResult(id, h)
  \/ \E r \in BlockReasons : EBlocked(id, r)
  \/ \E f \in BOOLEAN : EError(id, f)

\* C18: every outcome the scheduler applies to the queue (Complete, Fail or
\* Block) carries the id of the queue task that was dispatched for that
\* dork and page, so each outcome removes exactly one task from the
\* in-flight set.
C18_OutcomeCarriesQueueTaskId ==
  [][\A id \in EngineIds :
       OutcomeApplied(id)
       => /\ engine.sentFor[id] = id
          /\ Cardinality(queue.running \ queue'.running) = 1]_vars

\* the control loop ran in state running and returned at `No more tasks`:
\* it found no task to dispatch and nothing in flight, and armed no timer
LoopFoundNothing ==
  /\ sched.state = "running"
  /\ ~sched.processTimer
  /\ queue.running = {}

\* C19: whenever the control loop runs in state running and finds no task
\* to dispatch and nothing in flight, the scheduler emits the drained signal
\* and transitions to completed (this covers Start with an empty dork list
\* and Resume after the last in-flight task finished during a pause): no
\* callback leaves the scheduler in state running after such a run of the
\* loop.
C19_IdleLoopCompletes == ~LoopFoundNothing

\* what Fail(id, error, retry) leaves of in-flight task id, told from the
\* queue before (q) and after (r) the call
FailedAsSpecified(q, r, id, retry) ==
  LET t == q.tasks[id]
      u == r.tasks[id]
  IN  /\ id \notin r.running
      /\ IF retry /\ t.retryCount < t.maxRetries
           THEN /\ u.status = "pending"
                /\ id \in PendingSet(r)
                /\ id \notin SeqToSet(r.failed)
                /\ u.retryCount = t.retryCount + 1
                /\ u.priority <= CRITICAL
                /\ t.priority < CRITICAL => u.priority = t.priority + 1
                /\ t.priority = CRITICAL => u.priority = CRITICAL
           ELSE /\ u.status = "failed"
                /\ id \in SeqToSet(r.failed)
                /\ id \notin PendingSet(r)
                /\ u.retryCount = t.retryCount
                /\ u.priority = t.priority

\* C20: Fail(id, error, retry) on an in-flight task: if retry is true and
\* retryCount < maxRetries, the task returns to pending with retryCount + 1
\* and its priority raised by exactly one level, never above critical;
\* otherwise it is marked failed and placed in the failed set.
C20_FailRetriesOrFails ==
  [][\A id \in TaskIds, retry \in BOOLEAN :
       (id \in queue.running /\ QFail(id, retry))
       => FailedAsSpecified(queue, queue', id, retry)]_vars

\* a task waits for its second retry at priority critical while another
\* task has failed for good
C20_Witness ==
  \E id, other \in TaskIds :
    /\ queue.tasks[id].status = "pending"
    /\ id \in PendingSet(queue)
    /\ queue.tasks[id].retryCount = 2
    /\ queue.tasks[id].priority = CRITICAL
    /\ queue.tasks[other].status = "failed"
    /\ other \in SeqToSet(queue.failed)

\* what Complete(id, urls, hasNextPage) enqueues for in-flight task id, told
\* from the queue before (q) and after (r) the call
SpawnedAsSpecified(q, r, id, hasNextPage) ==
  LET t == q.tasks[id]
  IN  IF hasNextPage /\ t.page < q.pagesPerDork - 1
        THEN /\ r.nextId = q.nextId + 1
             /\ Len(r.pending) = Len(q.pending) + 1
             /\ PendingSet(r) = PendingSet(q) \cup {q.nextId}
             /\ r.tasks[q.nextId].dork = t.dork
             /\ r.tasks[q.nextId].page = t.page + 1
             /\ r.tasks[q.nextId].status = "pending"
        ELSE /\ r.nextId = q.nextId
             /\ r.pending = q.pending

\* C21: Complete(id, urls, hasNextPage) enqueues exactly one task for
\* (dork, page + 1) when hasNextPage is true and page < pagesPerDork - 1,
\* and enqueues nothing otherwise; in particular nothing is spawned at
\* page = pagesPerDork - 1.
C21_CompleteSpawnsNextPage ==
  [][\A id \in TaskIds, h \in BOOLEAN :
       (id \in queue.running /\ QComplete(id, h))
       => SpawnedAsSpecified(queue, queue', id, h)]_vars

\* a dork's page 0 and its last page are both completed, and the only
\* other task ever created is the one the first completion spawned
C21_Witness ==
  \E id, next \in TaskIds :
    /\ queue.tasks[id].status = "completed"
    /\ queue.tasks[id].page = 0
    /\ queue.tasks[next].status = "completed"
    /\ queue.tasks[next].dork = queue.tasks[id].dork
    /\ queue.tasks[next].page = queue.pagesPerDork - 1
    /\ queue.tasks[next].priority = HIGH
    /\ queue.pending = <<>>
    /\ queue.nextId = next + 1

\* the pending list holds the higher priority first
PendingByPriority(q) ==
  \A i, j \in 1..Len(q.pending) :
    i < j => q.tasks[q.pending[i]].priority >= q.tasks[q.pending[j]].priority

\* the tasks of s that are in set S, in the order of s
Restrict(s, S) == SelectSeq(s, LAMBDA x : x \in S)

\* from queue q to queue r the tasks that stay pending keep their order, and
\* a task that enters the pending list stands behind every pending task of
\* its own or a higher priority and before every one of lower priority
EnqueuedBehindClass(q, r) ==
  /\ LET stay == PendingSet(q) \cap PendingSet(r)
     IN  Restrict(r.pending, stay) = Restrict(q.pending, stay)
  /\ \A k \in 1..Len(r.pending) :
       r.pending[k] \notin PendingSet(q)
       => \A j \in 1..Len(r.pending) :
            /\ j < k => r.tasks[r.pending[j]].priority
                          >= r.tasks[r.pending[k]].priority
            /\ j > k /\ r.pending[j] \in PendingSet(q)
                 => r.tasks[r.pending[j]].priority
                      < r.tasks[r.pending[k]].priority

\* from queue q to queue r the tasks handed out are the first of the
\* pending list
DispatchedFromHead(q, r) ==
  LET out == r.running \ q.running
  IN  out # {}
      => /\ out = {q.pending[i] : i \in 1..Cardinality(out)}
         /\ r.pending = SubSeq(q.pending, Cardinality(out) + 1, Len(q.pending))

C23_PageTaskAtFrontOfClass ==
  [][\A d \in Dorks, page \in PageInputs :
       QAddPage(d, page, HIGH)
       => \A j \in 1..Len(queue'.pending) :
            (/\ queue'.pending[j] \in PendingSet(queue)
             /\ queue'.tasks[queue'.pending[j]].priority = HIGH)
            => IndexOf(queue'.pending, queue.nextId) < j]_vars

\* a Complete, Fail or Block call that takes a task out of the in-flight set
OutcomeOnInFlight ==
  \E id \in queue.running :
    \/ \E h \in BOOLEAN : QComplete(id, h)
    \/ \E r \in BOOLEAN : QFail(id, r)
    \/ QBlock(id)

\* C24: each drain emits a single drained signal: the signal is emitted
\* when, and only when, a Complete or Fail leaves the queue with
\* pending == 0 and running == 0, and exactly once for that transition.
\* The call that emits it is the one that takes the last task out of the
\* in-flight set; no other step emits anything.
C24_DrainedSignalOnDrain ==
  [][IF OutcomeOnInFlight
       THEN queue'.signal = "queueDrained" <=> Drained(queue')
       ELSE queue'.signal \in {queue.signal, "none"}]_vars

\* the last in-flight task has failed for good after another one was
\* completed, and that call emitted the drained signal
C24_Witness ==
  /\ queue.signal = "queueDrained"
  /\ Drained(queue)
  /\ Len(queue.failed) >= 1
  /\ Len(queue.completed) >= 1
  /\ queue.tasks[queue.nextId - 1].status = "failed"

(***************************************************************************)
(* QueueNoRetrySpec: QueueSpec for a queue constructed with maxRetries: 0. *)
(***************************************************************************)
QueueNoRetryInit ==
  /\ queue \in {NewTaskQueue(c, 0, p) : c \in MaxConcurrentOptions,
                                        p \in PagesPerDorkOptions}
  /\ OthersIdle

QueueNoRetrySpec == QueueNoRetryInit /\ [][QueueNext]_vars

\* C25: with maxRetries configured as 0, the first failure of a task is
\* final: the task goes to the failed set and is never re-queued.
C25_FirstFailureFinal ==
  [][\A id \in TaskIds, r \in BOOLEAN :
       (id \in queue.running /\ QFail(id, r))
       => /\ queue'.tasks[id].status = "failed"
          /\ id \in SeqToSet(queue'.failed)
          /\ id \notin PendingSet(queue')]_vars

\* C26: NextBatch(n) returns at most n tasks, returns none while the queue
\* is paused, and never raises the in-flight count above the queue's
\* max-concurrency cap.
C26_BatchWithinLimits ==
  [][\A n \in BatchSizes :
       QNextBatch(n)
       => LET out == queue'.running \ queue.running
          IN  /\ Cardinality(out) <= n
              /\ Len(queue'.pending) = Len(queue.pending) - Cardinality(out)
              /\ queue.paused => out = {}
              /\ out # {} => Cardinality(queue'.running) <= queue.maxConcurrent]_vars

\* the cap is reached with a task left pending: a batch stopped at the cap
C26_Witness ==
  /\ ~queue.paused
  /\ queue.pending # <<>>
  /\ Cardinality(queue.running) = queue.maxConcurrent
  /\ \A id \in queue.running : queue.tasks[id].handouts >= 1

\* C27: at every observation point the number of in-flight tasks is at most
\* currentConcurrency.
C27_InFlightWithinConcurrency ==
  Cardinality(queue.running) <= sched.currentConcurrency

\* C28: on every captcha or block outcome with adaptive concurrency
\* enabled, currentConcurrency becomes
\* max(currentConcurrency - 10, minConcurrency) and the queue's
\* max-concurrency cap is set to that same value.
C28_BlockDecreasesByTen ==
  [][\A id \in EngineIds, r \in BlockReasons :
       (sched.options.adaptiveConcurrency /\ EBlocked(id, r))
       => /\ sched'.currentConcurrency =
               Max2(sched.currentConcurrency - 10, sched.options.minConcurrency)
          /\ queue'.maxConcurrent = sched'.currentConcurrency]_vars

\* a step that handles a result the core reported
ResultHandled == \E id \in EngineIds, h \in BOOLEAN : EResult(id, h)

\* a call of Scheduler.start
StartCalled == \E dorks \in DorkLists : SStart(dorks)

\* the success rate over the recorded outcomes of s (the window) is at
\* least targetSuccessRate + 5, and the window holds at most 100 outcomes
WindowRateAboveTarget(s) ==
  LET n == Len(s.recentResults)
      ok == Cardinality({i \in 1..n : s.recentResults[i]})
  IN  /\ n <= 100
      /\ n >= 1
      /\ s.recentResults[n]
      /\ ok * 100 >= (s.options.targetSuccessRate + 5) * n

\* the increase the adaptive logic makes
IncreasedByFive ==
  /\ ResultHandled
  /\ WindowRateAboveTarget(sched')
  /\ sched'.currentConcurrency =
       Min2(sched.currentConcurrency + 5, sched.options.maxConcurrency)

StopsOnFatal ==
  \A id \in EngineIds :
    EError(id, TRUE) => sched'.state \in {"stopping", "stopped"}

\* C30: when the engine reports an error marked fatal for a task, that task
\* (the queue task the message was sent for) is recorded as failed without
\* any retry and the scheduler stops, ending in state stopped.
C30_FatalErrorFailsAndStops ==
  /\ [][\A id \in EngineIds :
          EError(id, TRUE)
          => /\ queue'.tasks[engine.sentFor[id]].status = "failed"
             /\ engine.sentFor[id] \in SeqToSet(queue'.failed)
             /\ engine.sentFor[id] \notin PendingSet(queue')]_vars
  /\ [][StopsOnFatal]_vars
  /\ (sched.state = "stopping") ~> (sched.state = "stopped")

(***************************************************************************)
(* SchedAllSpec: SchedSpec in a process where another holder of the queue   *)
(* singleton reports tasks complete under their queue ids.                 *)
(***************************************************************************)
SchedAllNext ==
  \/ SchedNext
  \/ \E id \in TaskIds, h \in BOOLEAN : QueueOwnerComplete(id, h)

SchedAllSpec == SchedInit /\ [][SchedAllNext]_vars

\* the transitions of the state machine as C31 lists them
ListedTransitions ==
  {<<"idle", "running">>, <<"running", "paused">>, <<"paused", "running">>,
   <<"running", "stopping">>, <<"stopping", "stopped">>,
   <<"running", "completed">>, <<"stopped", "running">>,
   <<"completed", "running">>}

\* running->stopping->stopped within one callback: Engine.stop has no
\* process to wait for and stop() resumes at once
StopAtOnce == {<<"running", "stopped">>}

\* C31: the scheduler state changes only along the transitions of the state
\* machine: idle->running (Start), running->paused (Pause), paused->running
\* (Resume), running->stopping->stopped (Stop), running->completed (queue
\* drained), and stopped or completed->running (Start); no other
\* transition ever occurs.
C31_OnlyListedTransitions ==
  [][sched'.state # sched.state
       => <<sched.state, sched'.state>>
            \in ListedTransitions \cup StopAtOnce]_vars

(***************************************************************************)
(* PoolCrowdSpec: a Pool of three proxies that have each served nine       *)
(* requests; every proxy serves one more, and the health-check ticker      *)
(* sweeps.                                                                 *)
(***************************************************************************)
\* proxies of the crowded pool
MaxCrowd == 3
\* requests one proxy of the crowded pool serves
MaxCrowdRequests == 10
\* entries of the alive list and of the quarantine list of the crowded pool
MaxCrowdListLen == 4

CrowdIds == 1..MaxCrowd

\* successes among the nine requests a proxy has served: three (its
\* failures never two in a row since the last revival) or nine
CrowdSuccessCounts == {3, 9}

\* the pool after AddProxy of the three proxies and nine reports for each
CrowdPool(config, successes) ==
  [proxies |-> [id \in CrowdIds |->
                  [status |-> "alive", failCount |-> 0,
                   totalRequests |-> MaxCrowdRequests - 1,
                   successCount |-> successes[id],
                   cooldownUntil |-> ZeroTime]],
   alive |-> [i \in CrowdIds |-> i], dead |-> <<>>, quarantine |-> <<>>,
   config |-> config,
   totalRequests |-> MaxCrowd * (MaxCrowdRequests - 1), now |-> 0,
   last |-> NoOp,
   captchaUntil |-> [id \in CrowdIds |-> ZeroTime],
   failRun |-> [id \in CrowdIds |-> 0],
   owed |-> [id \in CrowdIds |-> FALSE]]

PoolCrowdInit ==
  /\ pool \in {CrowdPool(c, h) : c \in PoolConfigs,
                                  h \in [CrowdIds -> CrowdSuccessCounts]}
  /\ queue = "unused"
  /\ sched = "unused"
  /\ engine = "unused"
  /\ filt = "unused"
  /\ mgr = "unused"

PCrowdReportSuccess(id) ==
  /\ pool.proxies[id].totalRequests < MaxCrowdRequests
  /\ pool' = ReportSuccess(pool, id)
  /\ UNCHANGED <<queue, sched, engine, filt, mgr>>

PCrowdReportFailure(id) ==
  /\ pool.proxies[id].totalRequests < MaxCrowdRequests
  /\ pool' = ReportFailure(pool, id)
  /\ UNCHANGED <<queue, sched, engine, filt, mgr>>

PCrowdHealthCheck ==
  /\ Len(performHealthCheck(pool).alive) <= MaxCrowdListLen
  /\ Len(performHealthCheck(pool).quarantine) <= MaxCrowdListLen
  /\ PHealthCheck

PoolCrowdNext ==
  \/ \E id \in CrowdIds : PCrowdReportSuccess(id)
  \/ \E id \in CrowdIds : PCrowdReportFailure(id)
  \/ PCrowdHealthCheck
  \/ PTick

PoolCrowdSpec == PoolCrowdInit /\ [][PoolCrowdNext]_vars

\* C32: when a health-check sweep returns, no proxy in the alive list has
\* 10 or more observed requests and a success rate below MinSuccessRate:
\* every such proxy has been quarantined.
C32_SweepQuarantinesLowRate ==
  [][pool' = performHealthCheck(pool)
       => \A i \in 1..Len(pool'.alive) :
            ~LowSuccessRate(pool', pool'.alive[i])]_vars

(***************************************************************************)
(* Further properties of the core Manager.                                 *)
(***************************************************************************)
\* the number of the buckets alive / quarantined / dead that hold proxy id
BucketsHolding(m, id) ==
  Cardinality({b \in {"alive", "quarantined", "dead"} : inSlice(m[b], id)})

\* C33: in the core proxy Manager, after any sequence of Add, MarkAlive,
\* MarkSlow, MarkFailed, MarkDead, MarkBanned, MarkCaptcha, Quarantine and
\* GetAlive (observed when no call is in progress), a proxy is in the alive
\* bucket if and only if its status is alive, and it is in at most one of
\* the alive / quarantined / dead buckets.
C33_AliveBucketIffStatusAlive ==
  mgr.readers = {}
  => \A id \in ProxyIds :
       /\ inSlice(mgr.alive, id) <=> mgr.proxies[id].status = "alive"
       /\ BucketsHolding(mgr, id) <= 1

(***************************************************************************)
(* The Rotator of the core (core/internal/proxy/rotator.go) over the       *)
(* Manager.  Every method of the Rotator takes r.mu, so calls of Next are  *)
(* serialized and the GetAlive inside Next runs checkQuarantine to its     *)
(* end.  The strategies least_latency and weighted read latencies and      *)
(* success counters, which the Manager model leaves out; they choose among *)
(* the same list.                                                          *)
(***************************************************************************)
\* calls of Next that select a proxy
MaxRotations == 3

Strategies == {"round_robin", "random", "least_used"}

RotateAfterValues == {1, 2}

RotatorConfigs ==
  {[Strategy |-> st, RotateAfter |-> n] :
     st \in Strategies, n \in RotateAfterValues}

NewRotator(config) ==
  [strategy |-> config.Strategy, currentIndex |-> 0,
   usageCount |-> [id \in ProxyIds |-> 0],
   rotateAfter |-> config.RotateAfter,
   requestCount |-> [id \in ProxyIds |-> 0]]

\* checkQuarantine, the second loop to its end
RECURSIVE releaseAll(_, _)
releaseAll(m, toRelease) ==
  IF toRelease = <<>> THEN m
  ELSE releaseAll(releaseOne(m, Head(toRelease)), Tail(toRelease))

\* the Manager after GetAlive by a single goroutine; the call returns a
\* copy of its alive list
GetAlive(m) == releaseAll(m, expiredQuarantined(m))

\* roundRobin: proxies[index % len] with the index before the increment
roundRobin(r, proxies) == proxies[(r.currentIndex % Len(proxies)) + 1]

\* leastUsed: the first proxy of the list with the least usage count
leastUsed(r, proxies) ==
  LET least(i) == \A j \in 1..Len(proxies) :
                    /\ r.usageCount[proxies[i]] <= r.usageCount[proxies[j]]
                    /\ j < i => r.usageCount[proxies[j]]
                                   > r.usageCount[proxies[i]]
  IN  proxies[CHOOSE i \in 1..Len(proxies) : least(i)]

\* the proxies Next can select from the list (random draws any of them)
Selectable(r, proxies) ==
  IF r.strategy = "random" THEN SeqToSet(proxies)
  ELSE IF r.strategy = "least_used" THEN {leastUsed(r, proxies)}
  ELSE {roundRobin(r, proxies)}

\* the Rotator after Next selected proxy id
selected(r, id) ==
  [r EXCEPT !.currentIndex = IF r.strategy \in {"random", "least_used"}
                             THEN @ ELSE @ + 1,
            !.usageCount[id] = @ + 1]

ShouldRotate(r, id) == r.requestCount[id] >= r.rotateAfter

RecordRequest(r, id) ==
  LET count == r.requestCount[id] + 1
  IN  [r EXCEPT !.requestCount[id] =
                   IF count >= r.rotateAfter THEN 0 ELSE count]

ResetRequestCount(r, id) == [r EXCEPT !.requestCount[id] = 0]

SetRotateAfter(r, count) == [r EXCEPT !.rotateAfter = count]

(***************************************************************************)
(* RotatorSpec: outcome reports quarantine proxies of the Manager, the     *)
(* clock advances, and one caller uses the Rotator.  mgr holds the Manager *)
(* m, the Rotator r and the history of the run: began[id] is the time at   *)
(* which the current quarantine of proxy id began (ZeroTime when it is not *)
(* quarantined), returned is the list GetAlive gave to the last call (when *)
(* that call was Next) and chosen the proxy Next returned (0 for nil).     *)
(***************************************************************************)
NoChoice == 0

RotatorInit ==
  /\ mgr \in {[m |-> NewManager(c), r |-> NewRotator(rc),
                began |-> [id \in ProxyIds |-> ZeroTime],
                returned |-> <<>>, chosen |-> NoChoice] :
                c \in ManagerConfigs, rc \in RotatorConfigs}
  /\ queue = "unused"
  /\ sched = "unused"
  /\ engine = "unused"
  /\ pool = "unused"
  /\ filt = "unused"

\* the time at which the quarantine of proxy id began, after a call that
\* took the Manager from m to m1
beganAfter(m, m1, began, id) ==
  IF m1.proxies[id].status # "quarantined" THEN ZeroTime
  ELSE IF m.proxies[id].status # "quarantined" THEN m1.now
  ELSE began[id]

\* a call leaves the Manager m1 and the Rotator r1
RotatorCall(m1, r1, returned, chosen) ==
  /\ MgrFits(m1)
  /\ mgr' = [m |-> m1, r |-> r1,
             began |-> [id \in ProxyIds |->
                          beganAfter(mgr.m, m1, mgr.began, id)],
             returned |-> returned, chosen |-> chosen]
  /\ UNCHANGED <<queue, sched, engine, pool, filt>>

RAdd(id) == RotatorCall(mgrAdd(mgr.m, id), mgr.r, <<>>, NoChoice)

RMarkFailed(id) ==
  /\ mgr.m.proxies[id].failCount < MaxMgrFails
  /\ RotatorCall(MarkFailed(mgr.m, id), mgr.r, <<>>, NoChoice)

RMarkCaptcha(id) ==
  RotatorCall(MarkCaptcha(mgr.m, id), mgr.r, <<>>, NoChoice)

RTick ==
  /\ mgr.m.now < MaxMgrTime
  /\ RotatorCall([mgr.m EXCEPT !.now = @ + 1], mgr.r, <<>>, NoChoice)

\* Rotator.Next
RNext ==
  LET m1 == GetAlive(mgr.m)
      proxies == m1.alive
  IN  IF proxies = <<>>
      THEN RotatorCall(m1, mgr.r, proxies, NoChoice)
      ELSE /\ mgr.r.currentIndex < MaxRotations
           /\ \A id \in ProxyIds : mgr.r.usageCount[id] < MaxRotations
           /\ \E id \in Selectable(mgr.r, proxies) :
                RotatorCall(m1, selected(mgr.r, id), proxies, id)

RRecordRequest(id) ==
  RotatorCall(mgr.m, RecordRequest(mgr.r, id), <<>>, NoChoice)

RResetRequestCount(id) ==
  RotatorCall(mgr.m, ResetRequestCount(mgr.r, id), <<>>, NoChoice)

RSetRotateAfter(count) ==
  RotatorCall(mgr.m, SetRotateAfter(mgr.r, count), <<>>, NoChoice)

RotatorNext ==
  \/ \E id \in ProxyIds : RAdd(id)
  \/ \E id \in ProxyIds : RMarkFailed(id)
  \/ \E id \in ProxyIds : RMarkCaptcha(id)
  \/ RTick
  \/ RNext
  \/ \E id \in ProxyIds : RRecordRequest(id)
  \/ \E id \in ProxyIds : RResetRequestCount(id)
  \/ \E count \in RotateAfterValues : RSetRotateAfter(count)

RotatorSpec == RotatorInit /\ [][RotatorNext]_vars

\* the quarantine of proxy id has begun and its duration has not elapsed
InQuarantinePeriod(w, id) ==
  /\ w.began[id] # ZeroTime
  /\ w.m.now < w.began[id] + w.m.quarantineDur

\* C34: in the core proxy Manager, each time a proxy is quarantined (by
\* MarkFailed reaching the failure limit or by MarkCaptcha), it is not
\* returned by GetAlive and not selected by Rotator.Next until the
\* quarantine duration has elapsed since that quarantine began; this holds
\* for the first and for every later quarantine of the same proxy.
C34_QuarantinedForTheDuration ==
  [][\A id \in ProxyIds :
       (RNext /\ InQuarantinePeriod(mgr, id))
       => /\ ~inSlice(mgr'.returned, id)
          /\ mgr'.chosen # id]_vars

\* C40: Rotator.ShouldRotate(id) returns true once rotateAfter requests
\* have been recorded for proxy id through RecordRequest since its request
\* count was last reset: after the RecordRequest that brings the count of
\* the requests recorded since the last reset to rotateAfter,
\* ShouldRotate(id) is true.
C40_ShouldRotateAfterRotateAfterRequests ==
  [][\A id \in ProxyIds :
       (RRecordRequest(id)
          /\ mgr.r.requestCount[id] + 1 >= mgr.r.rotateAfter)
       => ShouldRotate(mgr'.r, id)]_vars

(***************************************************************************)
(* Further properties of the filter pipeline.                              *)
(***************************************************************************)
\* the reject reasons in the order of the 14 steps, the extension
\* blacklist before the extension whitelist within step 9
StepOrder ==
  <<"invalid_url", "invalid_length", "no_domain", "invalid_domain",
    "tld_not_whitelisted", "tld_blacklisted", "domain_not_whitelisted",
    "domain_blacklisted", "extension_blacklisted",
    "extension_not_whitelisted", "keyword_not_found", "keyword_excluded",
    "no_params", "public_domain", "duplicate">>

\* the test of one step, taken alone, rejects the URL
StepFails(f, url, reason) ==
  LET o == f.options
      domain == extractDomain(url)
      topDomain == IF domain = NoHost THEN NoHost
                   ELSE extractTopDomain(domain)
      tld == IF topDomain = NoHost THEN "" ELSE topDomain[Len(topDomain)]
      extension == url.text.ext
      listed(list) == \E pat \in list : \/ matchesPattern(domain, pat)
                                        \/ matchesPattern(topDomain, pat)
  IN  CASE reason = "invalid_url" -> url.len = 0
        [] reason = "invalid_length" ->
             url.len < o.minUrlLength \/ url.len > o.maxUrlLength
        [] reason = "no_domain" -> domain = NoHost
        [] reason = "invalid_domain" -> domain # NoHost /\ ~url.valid
        [] reason = "tld_not_whitelisted" ->
             o.tldWhitelist # {} /\ domain # NoHost
               /\ tld \notin o.tldWhitelist
        [] reason = "tld_blacklisted" ->
             o.tldBlacklist # {} /\ domain # NoHost
               /\ tld \in o.tldBlacklist
        [] reason = "domain_not_whitelisted" ->
             o.domainWhitelist # {} /\ domain # NoHost
               /\ ~listed(o.domainWhitelist)
        [] reason = "domain_blacklisted" ->
             o.domainBlacklist # {} /\ domain # NoHost
               /\ listed(o.domainBlacklist)
        [] reason = "extension_blacklisted" ->
             extension # "" /\ extension \in o.extensionBlacklist
        [] reason = "extension_not_whitelisted" ->
             extension # "" /\ o.extensionWhitelist # {}
               /\ extension \notin o.extensionWhitelist
        [] reason = "keyword_not_found" ->
             o.keywordInclude # {} /\ url.words \cap o.keywordInclude = {}
        [] reason = "keyword_excluded" ->
             o.keywordExclude # {} /\ url.words \cap o.keywordExclude # {}
        [] reason = "no_params" ->
             o.urlParamsOnly /\ ~(url.text.track # "none" \/ url.text.query)
        [] reason = "public_domain" ->
             o.antiPublic /\ domain # NoHost
               /\ isPublicDomain(o.publicDomains, domain)
        [] reason = "duplicate" ->
             o.removeDuplicates /\ ~add(f.urlDedup, url.text).isNew

\* the reason of the earliest step of the order that rejects the URL
EarliestFailing(f, url) ==
  LET failing == {i \in 1..Len(StepOrder) : StepFails(f, url, StepOrder[i])}
  IN  StepOrder[CHOOSE i \in failing : \A j \in failing : i <= j]

\* C35: every URL rejected by the filter pipeline gets exactly one reject
\* reason, that of the earliest failing step in the specified order of the
\* 14 steps, with later steps not evaluated; within step 9 the extension
\* blacklist is checked before the extension whitelist.
C35_EarliestFailingStepGivesReason ==
  [][\A url \in Urls :
       (FFilterOne(url) /\ filt'.stats.filtered > filt.stats.filtered)
       => \E r \in Reasons :
            /\ filt'.byReason = [filt.byReason EXCEPT ![r] = @ + 1]
            /\ r = EarliestFailing(filt, url)
            /\ filt'.urlDedup.count = filt.urlDedup.count]_vars

(***************************************************************************)
(* NormalizeSpec: normalizeUrl is applied to a URL and to its own results. *)
(***************************************************************************)
\* applications of normalizeUrl to one URL
MaxPasses == 2
\* slashes a path ends with
MaxSlashes == 2

\* the strings normalizeUrl is given: URLs of the two hosts whose paths end
\* with up to MaxSlashes slashes, with or without a tracking parameter in
\* either spelling (an upper-case one makes the string hold upper case)
\* and other parameters, and a string that does not parse
UrlTexts ==
  {[scheme |-> "http", host |-> h, path |-> "/x", upper |-> u, slash |-> s,
    track |-> t, query |-> q, ext |-> ""] :
     h \in SiteHosts, u \in BOOLEAN, s \in 0..MaxSlashes,
     t \in {"none", "lower", "upper"}, q \in BOOLEAN}
  \cup {[PlainText EXCEPT !.host = NoHost, !.scheme = "", !.upper = u] :
          u \in BOOLEAN}

NormalizeInit ==
  /\ filt \in {[url |-> t, text |-> t, passes |-> 0] :
                 t \in {x \in UrlTexts : x.track = "upper" => x.upper}}
  /\ queue = "unused"
  /\ sched = "unused"
  /\ engine = "unused"
  /\ pool = "unused"
  /\ mgr = "unused"

NNormalize ==
  /\ filt.passes < MaxPasses
  /\ filt' = [filt EXCEPT !.text = normalizeUrl(@), !.passes = @ + 1]
  /\ UNCHANGED <<queue, sched, engine, pool, mgr>>

NormalizeNext == NNormalize

NormalizeSpec == NormalizeInit /\ [][NormalizeNext]_vars

\* C36: URL normalization is idempotent: for every URL u,
\* normalizeUrl(normalizeUrl(u)) = normalizeUrl(u).
C36_NormalizeIdempotent ==
  filt.passes = MaxPasses => filt.text = normalizeUrl(filt.url)

(***************************************************************************)
(* The domain ledger of the AntiPublicFilter (src/src/filter/antiPublic.ts) *)
(* The first_seen and last_seen columns hold the time of the statement and *)
(* are left out with the clock; the row of a host is its hit_count.        *)
(***************************************************************************)
\* hit_count of one host
MaxHits == 2

\* insertStmt: INSERT ... ON CONFLICT(domain) DO UPDATE SET hit_count + 1
addDomainToDb(ledger, domain) ==
  IF domain \in DOMAIN ledger THEN [ledger EXCEPT ![domain] = @ + 1]
  ELSE ledger @@ (domain :> 1)

\* AntiPublicFilter.filterUrl (enabled, localDb and trackNew true)
filterUrl(f, url) ==
  LET domain == extractDomain(url)
  IN  IF domain = NoHost THEN f
      ELSE IF isPublicDomain(f.options.publicDomains, domain) THEN f
      ELSE [f EXCEPT !.ledger = addDomainToDb(@, domain)]

(***************************************************************************)
(* LedgerSpec: URLs are passed through a FilterPipeline with the default   *)
(* options, and the AntiPublicFilter it shares (getAntiPublicFilter hands  *)
(* out one instance) is also called directly through filterUrl.            *)
(***************************************************************************)
LedgerInit ==
  /\ filt = NewFilterPipeline(DefaultFilterOptions)
  /\ queue = "unused"
  /\ sched = "unused"
  /\ engine = "unused"
  /\ pool = "unused"
  /\ mgr = "unused"

LFilterUrl(url) ==
  /\ \A h \in DOMAIN filt.ledger : filt.ledger[h] < MaxHits
  /\ filt' = filterUrl(filt, url)
  /\ UNCHANGED <<queue, sched, engine, pool, mgr>>

LedgerNext ==
  \/ \E url \in Urls : FFilterOne(url)
  \/ \E url \in Urls : LFilterUrl(url)

LedgerSpec == LedgerInit /\ [][LedgerNext]_vars

\* C37: when the filter pipeline accepts a URL at the anti-public step and
\* domain tracking is enabled, the domain ledger afterwards holds an entry
\* for that URL's host (newly inserted, or with hit_count incremented and
\* last_seen updated).
C37_AcceptedHostInLedger ==
  [][\A url \in Urls :
       (FFilterOne(url) /\ filt.options.antiPublic
          /\ firstReason(filt, url) = "none")
       => /\ extractDomain(url) \in DOMAIN filt'.ledger
          /\ filt'.ledger = addDomainToDb(filt.ledger, extractDomain(url))]_vars

(***************************************************************************)
(* Google.ParseResults of the worker (worker/internal/engine/engine.go).   *)
(*                                                                         *)
(* A response body is the sequence of the candidates the four patterns     *)
(* match, in the order the two loops visit them, and the sequence of the   *)
(* "url" values of its JSON-LD blocks.  A candidate is the URL it spells   *)
(* (scheme, host labels, whether the host carries a port) and whether it   *)
(* is percent-encoded; cleanURL decodes it and validates the scheme.       *)
(***************************************************************************)
\* candidates one body holds for the patterns, and in its JSON-LD blocks
MaxCandidates == 2

\* the empty string cleanURL returns for a URL it does not accept
NoUrl == [scheme |-> "", host |-> NoHost, port |-> FALSE]

GoogleDomains == {<<"google", "com">>}

\* the URLs the candidates spell
TargetUrls ==
  {[scheme |-> "https", host |-> <<"a", "com">>, port |-> FALSE],
   [scheme |-> "https", host |-> <<"a", "com">>, port |-> TRUE],
   [scheme |-> "https", host |-> <<"www", "a", "com">>, port |-> FALSE],
   [scheme |-> "https", host |-> <<"b", "com">>, port |-> FALSE],
   [scheme |-> "https", host |-> <<"google", "com">>, port |-> FALSE],
   [scheme |-> "ftp", host |-> <<"b", "com">>, port |-> FALSE]}

Candidates ==
  {[target |-> t, encoded |-> FALSE] : t \in TargetUrls}
  \cup {[target |-> [scheme |-> "https", host |-> <<"a", "com">>,
                     port |-> FALSE],
         encoded |-> TRUE]}

CandidateLists ==
  UNION {[1..n -> Candidates] : n \in 0..MaxCandidates}

\* Google.cleanURL: the decoded URL, or "" when it is not http(s)
cleanURL(raw) ==
  IF raw.target.scheme \notin {"http", "https"} THEN NoUrl ELSE raw.target

\* host == domain || strings.HasSuffix(host, "." + domain), where host is
\* parsed.Host: a port is part of it
hostMatches(url, domain) ==
  /\ ~url.port
  /\ \/ url.host = domain
     \/ /\ Len(url.host) > Len(domain)
        /\ LastLabels(url.host, Len(domain)) = domain

isGoogleURL(url) == \E domain \in GoogleDomains : hostMatches(url, domain)

isExcludedDomain(g, url) ==
  \E domain \in g.ExcludeDomains : hostMatches(url, domain)

\* a variant of emit that does not look at the seen map
emit_NoSeenCheck(out, url) ==
  [seen |-> out.seen \cup {url}, position |-> out.position + 1,
   results |-> Append(out.results,
                      [URL |-> url, Position |-> out.position + 1])]

\* the end of both loop bodies of ParseResults: a URL not seen before is
\* recorded, numbered and appended
emit(out, url) ==
  IF url \in out.seen THEN out
  ELSE [seen |-> out.seen \cup {url}, position |-> out.position + 1,
        results |-> Append(out.results,
                           [URL |-> url, Position |-> out.position + 1])]

\* ParseResults, the loop over the matches of the patterns
RECURSIVE parsePatterns(_, _, _)
parsePatterns(g, matches, out) ==
  IF matches = <<>> THEN out
  ELSE LET url == cleanURL(Head(matches))
           skip == \/ url = NoUrl
                   \/ url \in out.seen
                   \/ isGoogleURL(url)
                   \/ isExcludedDomain(g, url)
       IN  parsePatterns(g, Tail(matches),
                         IF skip THEN out ELSE emit(out, url))

\* Google.parseJSONLD: the cleaned URLs of the blocks
RECURSIVE parseJSONLD(_)
parseJSONLD(jsonld) ==
  IF jsonld = <<>> THEN <<>>
  ELSE LET url == cleanURL(Head(jsonld))
       IN  IF url # NoUrl /\ ~isGoogleURL(url)
           THEN <<url>> \o parseJSONLD(Tail(jsonld))
           ELSE parseJSONLD(Tail(jsonld))

\* ParseResults, the loop over jsonResults
RECURSIVE mergeJSONLD(_, _)
mergeJSONLD(jsonResults, out) ==
  IF jsonResults = <<>> THEN out
  ELSE mergeJSONLD(Tail(jsonResults), emit(out, Head(jsonResults)))

ParseResults(g, html) ==
  mergeJSONLD(parseJSONLD(html.jsonld),
              parsePatterns(g, html.matches,
                            [seen |-> {}, position |-> 0,
                             results |-> <<>>])).results

(***************************************************************************)
(* ParseSpec: a Google engine with its excluded domains is given one       *)
(* response body.  The variable engine holds the Google g, the body and    *)
(* what ParseResults returned.                                             *)
(***************************************************************************)
ExcludeDomainSets == {{}, {<<"a", "com">>}}

ParseInit ==
  /\ engine \in {[g |-> [ExcludeDomains |-> x],
                   html |-> [matches |-> m, jsonld |-> j],
                   parsed |-> FALSE, results |-> <<>>] :
                   x \in ExcludeDomainSets, m \in CandidateLists,
                   j \in CandidateLists}
  /\ queue = "unused"
  /\ sched = "unused"
  /\ pool = "unused"
  /\ filt = "unused"
  /\ mgr = "unused"

GParseResults ==
  /\ ~engine.parsed
  /\ engine' = [engine EXCEPT !.parsed = TRUE,
                              !.results = ParseResults(engine.g, engine.html)]
  /\ UNCHANGED <<queue, sched, pool, filt, mgr>>

ParseNext == GParseResults

ParseSpec == ParseInit /\ [][ParseNext]_vars

\* C38: ExtractURLs never returns a URL whose host equals, or is a
\* subdomain of, a configured exclude-domain entry, whichever extraction
\* pattern produced it, the JSON-LD fallback included.
C38_NoExcludedDomainReturned ==
  engine.parsed =>
    \A i \in 1..Len(engine.results), domain \in engine.g.ExcludeDomains :
      LET host == engine.results[i].URL.host
      IN  /\ host # domain
          /\ ~(Len(host) > Len(domain)
                 /\ LastLabels(host, Len(domain)) = domain)

\* C39: ExtractURLs returns pairwise-distinct cleaned URLs whose positions
\* are exactly 1, 2, ..., n in emission order.
C39_DistinctAndNumbered ==
  engine.parsed =>
    /\ \A i \in 1..Len(engine.results) : engine.results[i].Position = i
    /\ \A i, j \in 1..Len(engine.results) :
         i # j => engine.results[i].URL # engine.results[j].URL

\* a body whose patterns and whose JSON-LD blocks give the same URL, and a
\* second URL, has been parsed
C39_Witness ==
  /\ engine.parsed
  /\ Len(engine.results) = 2
  /\ \E i \in 1..Len(engine.html.matches),
        j \in 1..Len(engine.html.jsonld) :
       /\ cleanURL(engine.html.matches[i]) = engine.results[1].URL
       /\ cleanURL(engine.html.jsonld[j]) = engine.results[1].URL
       /\ engine.html.matches[i] # engine.html.jsonld[j]

====
